---- MODULE Spec2Model ----
(***************************************************************************)
(* MavlinkLog: dynamic schema inference and time-series query engine       *)
(* (core.py).  A decoded log is materialized into one table per message    *)
(* type (CSV files, then SQLite); the catalog, classifier, time resolver,  *)
(* normalizer and query functions read the materialized store.             *)
(*                                                                         *)
(* Text is modelled as a sequence of one-character strings so that         *)
(* lower-casing, substring tests, number formatting and number parsing are *)
(* computed, not assumed.                                                  *)
(***************************************************************************)
EXTENDS Integers, Sequences, FiniteSets, TLC

VARIABLES logfile, store, result, session_state

vars == <<logfile, store, result, session_state>>

(***************************************************************************)
(* Text                                                                    *)
(***************************************************************************)
UpperChars == <<"A","B","C","D","E","F","G","H","I","J","K","L","M",
                "N","O","P","Q","R","S","T","U","V","W","X","Y","Z">>

LowerChars == <<"a","b","c","d","e","f","g","h","i","j","k","l","m",
                "n","o","p","q","r","s","t","u","v","w","x","y","z">>

DigitChars == <<"0","1","2","3","4","5","6","7","8","9">>

Range(s) == {s[i] : i \in 1..Len(s)}

\* str.lower() on one character
LowerOf == [c \in Range(UpperChars) |->
               LowerChars[CHOOSE i \in 1..Len(UpperChars) : UpperChars[i] = c]]

LowerChar(c) == IF c \in DOMAIN LowerOf THEN LowerOf[c] ELSE c

\* str.lower()
Lower(s) == [i \in 1..Len(s) |-> LowerChar(s[i])]

\* Python's  pat in s  on strings
Contains(pat, s) ==
    \E i \in 0..(Len(s) - Len(pat)) : SubSeq(s, i + 1, i + Len(pat)) = pat

\* str.replace(old, new) for a one-character old and new
ReplaceChar(s, old, new) == [i \in 1..Len(s) |-> IF s[i] = old THEN new ELSE s[i]]

DigitOf == [c \in Range(DigitChars) |-> (CHOOSE i \in 1..10 : DigitChars[i] = c) - 1]

IsDigit(c) == c \in DOMAIN DigitOf

DigitVal(c) == DigitOf[c]

RECURSIVE NatStr(_)
\* str(n) for an integer n >= 0
NatStr(n) == IF n < 10 THEN <<DigitChars[n + 1]>>
             ELSE NatStr(n \div 10) \o <<DigitChars[(n % 10) + 1]>>

\* str(n) for an integer
IntStr(n) == IF n < 0 THEN <<"-">> \o NatStr(0 - n) ELSE NatStr(n)

RECURSIVE DigitsVal(_)
\* the number written by a non-empty sequence of digits
DigitsVal(s) == IF Len(s) = 1 THEN DigitVal(s[1])
                ELSE 10 * DigitsVal(SubSeq(s, 1, Len(s) - 1)) + DigitVal(s[Len(s)])

\* a decimal integer literal: optional minus sign, then digits
IsIntText(s) ==
    LET body == IF Len(s) > 0 /\ s[1] = "-" THEN Tail(s) ELSE s
    IN  Len(body) > 0 /\ \A i \in 1..Len(body) : IsDigit(body[i])

IntTextVal(s) == IF s[1] = "-" THEN 0 - DigitsVal(Tail(s)) ELSE DigitsVal(s)

(***************************************************************************)
(* Sequence helpers                                                        *)
(***************************************************************************)
RECURSIVE SelectSeq2(_, _)
\* the elements of s, in order, that belong to the set keep
SelectSeq2(s, keep) ==
    IF s = <<>> THEN <<>>
    ELSE IF Head(s) \in keep THEN <<Head(s)>> \o SelectSeq2(Tail(s), keep)
    ELSE SelectSeq2(Tail(s), keep)

RECURSIVE Dedup(_)
\* the elements of s in first-seen order, each once
Dedup(s) ==
    IF s = <<>> THEN <<>>
    ELSE LET front == Dedup(SubSeq(s, 1, Len(s) - 1))
             last  == s[Len(s)]
         IN  IF last \in Range(front) THEN front ELSE Append(front, last)

RECURSIVE Flatten(_)
Flatten(ss) == IF ss = <<>> THEN <<>> ELSE Head(ss) \o Flatten(Tail(ss))

RECURSIVE SumSeq(_)
SumSeq(s) == IF s = <<>> THEN 0 ELSE Head(s) + SumSeq(Tail(s))

Min(a, b) == IF a < b THEN a ELSE b

(***************************************************************************)
(* Values.  A decoded field value is None, an int or a str; a cell of the  *)
(* store is NULL, INTEGER, REAL or TEXT.  Reals of the model are whole     *)
(* numbers (an integer column that holds a missing value becomes float64). *)
(***************************************************************************)
Null == [k |-> "null", n |-> 0, s |-> <<>>]

IntV(i) == [k |-> "int", n |-> i, s |-> <<>>]

RealV(i) == [k |-> "real", n |-> i, s |-> <<>>]

StrV(t) == [k |-> "str", n |-> 0, s |-> t]

\* str(x) of a Python float holding a whole number: "1.0"
RealStr(i) == IntStr(i) \o <<".", "0">>

\* a decimal literal of the model: an integer literal, optionally followed by ".0"
IsNumText(t) ==
    \/ IsIntText(t)
    \/ /\ Len(t) > 2
       /\ SubSeq(t, Len(t) - 1, Len(t)) = <<".", "0">>
       /\ IsIntText(SubSeq(t, 1, Len(t) - 2))

NumTextVal(t) == IF IsIntText(t) THEN IntTextVal(t)
                 ELSE IntTextVal(SubSeq(t, 1, Len(t) - 2))

(***************************************************************************)
(* parse_all_mavlink_messages_to_csv                                       *)
(*                                                                         *)
(* A decoded message: its type, _fieldnames, the ordered to_dict() items   *)
(* (pairs <<name, value>>) and whether to_dict() succeeds.                 *)
(***************************************************************************)
BAD_DATA == <<"B","A","D","_","D","A","T","A">>

UNKNOWN == <<"U","N","K","N","O","W","N">>

Keys(fields) == [i \in 1..Len(fields) |-> fields[i][1]]

HasKey(fields, name) == \E i \in 1..Len(fields) : fields[i][1] = name

ValueOf(fields, name) == fields[CHOOSE i \in 1..Len(fields) : fields[i][1] = name][2]

\* a plausible slip: the columns are fixed by the first record
DataFrameColumns_firstRecord(records) == Keys(records[1])

\* pd.DataFrame(records): the columns are the union of the records' keys in
\* first-seen order; a key a record lacks is a missing value in its row
DataFrameColumns(records) ==
    Dedup(Flatten([i \in 1..Len(records) |-> Keys(records[i])]))

DataFrameRows(records) ==
    LET cols == DataFrameColumns(records)
    IN  [i \in 1..Len(records) |->
            [j \in 1..Len(cols) |->
                IF HasKey(records[i], cols[j]) THEN ValueOf(records[i], cols[j])
                ELSE Null]]

Column(rows, j) == [i \in 1..Len(rows) |-> rows[i][j]]

\* the dtype pandas gives a column built from Python values
FrameDtype(col) ==
    LET present == {i \in 1..Len(col) : col[i].k # "null"}
    IN  IF \E i \in present : col[i].k = "str" THEN "object"
        ELSE IF present = {} THEN "object"
        ELSE IF \E i \in present : col[i].k = "real" THEN "float64"
        ELSE IF present = 1..Len(col) THEN "int64"
        ELSE "float64"

\* DataFrame.to_csv: the text written for one cell of a column of that dtype
CsvText(v, dtype) ==
    IF v.k = "null" THEN <<>>
    ELSE IF v.k = "str" THEN v.s
    ELSE IF dtype = "float64" THEN RealStr(v.n)
    ELSE IntStr(v.n)

to_csv(columns, rows) ==
    [header |-> columns,
     lines  |-> [i \in 1..Len(rows) |->
                    [j \in 1..Len(columns) |->
                        CsvText(rows[i][j], FrameDtype(Column(rows, j)))]]]

\* the message types of the log in first-seen order, sentinel types skipped
SeenTypes(log) ==
    Dedup(SelectSeq2([i \in 1..Len(log) |-> log[i].type],
                     {log[i].type : i \in 1..Len(log)} \ {BAD_DATA, UNKNOWN}))

FirstOfType(log, t) == log[CHOOSE i \in 1..Len(log) :
                              /\ log[i].type = t
                              /\ \A j \in 1..(i - 1) : log[j].type # t]

RECURSIVE ConvertedRecords(_, _)
\* message_files[t]: the to_dict() of every message of type t that converted
ConvertedRecords(log, t) ==
    IF log = <<>> THEN <<>>
    ELSE IF Head(log).type = t /\ Head(log).ok
         THEN <<Head(log).fields>> \o ConvertedRecords(Tail(log), t)
         ELSE ConvertedRecords(Tail(log), t)

\* a plausible slip: a failed conversion ends the loop (break, not continue), so
\* the log is read only up to its first message that fails to convert
parse_all_mavlink_messages_to_csv_breakOnFailure(log) ==
    LET failing == {i \in 1..Len(log) :
                       /\ ~log[i].ok
                       /\ log[i].type \notin {BAD_DATA, UNKNOWN}}
        read    == IF failing = {} THEN log
                   ELSE SubSeq(log, 1, CHOOSE i \in failing : \A j \in failing : i <= j)
        types   == SeenTypes(read)
    IN  [i \in 1..Len(types) |->
            LET records == ConvertedRecords(read, types[i])
            IN  [type |-> types[i],
                 csv  |-> IF records # <<>>
                          THEN to_csv(DataFrameColumns(records), DataFrameRows(records))
                          ELSE [header |-> FirstOfType(read, types[i]).fieldnames,
                                lines  |-> <<>>]]]

\* message_writers, with the content of each CSV file: the header written from
\* the first message's _fieldnames, replaced by the frame of the accumulated
\* records when there are any
parse_all_mavlink_messages_to_csv(log) ==
    LET types == SeenTypes(log)
    IN  [i \in 1..Len(types) |->
            LET records == ConvertedRecords(log, types[i])
            IN  [type |-> types[i],
                 csv  |-> IF records # <<>>
                          THEN to_csv(DataFrameColumns(records), DataFrameRows(records))
                          ELSE [header |-> FirstOfType(log, types[i]).fieldnames,
                                lines  |-> <<>>]]]

(***************************************************************************)
(* load_csvs_to_temp_db                                                    *)
(***************************************************************************)
\* the texts pd.read_csv reads as a missing value (pandas' default na_values)
NaTexts == { <<>>, <<"N","A">>, <<"N","a","N">>, <<"n","a","n">>,
             <<"n","u","l","l">>, <<"N","U","L","L">>, <<"N","o","n","e">> }

IsNaText(t) == t \in NaTexts

\* the dtype pd.read_csv infers for a column of texts
CsvDtype(texts) ==
    LET present == {i \in 1..Len(texts) : ~IsNaText(texts[i])}
    IN  IF \E i \in present : ~IsNumText(texts[i]) THEN "object"
        ELSE IF present = 1..Len(texts) /\ \A i \in present : IsIntText(texts[i])
             THEN "int64"
        ELSE "float64"

\* the value pd.read_csv gives one text of a column of that dtype
CsvValue(t, dtype) ==
    IF IsNaText(t) THEN Null
    ELSE IF dtype = "int64" THEN IntV(NumTextVal(t))
    ELSE IF dtype = "float64" THEN RealV(NumTextVal(t))
    ELSE StrV(t)

\* pd.read_csv(csv_path, low_memory=False)
read_csv(csv) ==
    LET dtypes == [j \in 1..Len(csv.header) |-> CsvDtype(Column(csv.lines, j))]
    IN  [columns |-> csv.header,
         dtypes  |-> dtypes,
         rows    |-> [i \in 1..Len(csv.lines) |->
                         [j \in 1..Len(csv.header) |->
                             CsvValue(csv.lines[i][j], dtypes[j])]]]

\* a plausible slip: a frame counts as empty only when it has no columns
FrameEmpty_noColumns(df) == Len(df.columns) = 0

\* DataFrame.empty
FrameEmpty(df) == Len(df.rows) = 0 \/ Len(df.columns) = 0

\* the storage type DataFrame.to_sql declares for a dtype
SqlType(dtype) == IF dtype = "int64" THEN "INTEGER"
                  ELSE IF dtype = "float64" THEN "REAL"
                  ELSE "TEXT"

\* msg_type.replace('-', '_').replace(' ', '_')
CleanTableName(msg_type) == ReplaceChar(ReplaceChar(msg_type, "-", "_"), " ", "_")

\* SQLite compares identifiers without regard to case: CREATE TABLE fails on two
\* columns that differ only in case, or on a table name that differs only in
\* case from an existing table's; the exception skips the message type
ToSqlRaises(db, name, df) ==
    \/ \E i, j \in 1..Len(df.columns) :
          i # j /\ Lower(df.columns[i]) = Lower(df.columns[j])
    \/ \E n \in DOMAIN db : n # name /\ Lower(n) = Lower(name)

EmptyDb == [n \in {} |-> Null]

\* df.to_sql(table_name, conn, if_exists='replace', index=False)
to_sql(db, name, df) ==
    [n \in (DOMAIN db) \cup {name} |->
        IF n = name
        THEN [columns |-> df.columns,
              types   |-> [j \in 1..Len(df.columns) |-> SqlType(df.dtypes[j])],
              rows    |-> df.rows]
        ELSE db[n]]

RECURSIVE LoadCsvs(_, _)
LoadCsvs(csv_files, db) ==
    IF csv_files = <<>> THEN db
    ELSE LET entry == Head(csv_files)
             df    == read_csv(entry.csv)
             name  == CleanTableName(entry.type)
         IN  IF Len(entry.csv.header) = 0 \/ FrameEmpty(df) \/ ToSqlRaises(db, name, df)
             THEN LoadCsvs(Tail(csv_files), db)
             ELSE LoadCsvs(Tail(csv_files), to_sql(db, name, df))

\* a plausible slip: the tables are written to the connection the caller
\* already holds, not to a new in-memory database
load_csvs_to_temp_db_sharedConnection(csv_files) == LoadCsvs(csv_files, store.db)

load_csvs_to_temp_db(csv_files) == LoadCsvs(csv_files, EmptyDb)

(***************************************************************************)
(* Reading the store.  An unknown table has no columns (PRAGMA table_info  *)
(* returns nothing) and a SELECT from it raises.                           *)
(***************************************************************************)
HasTable(db, t) == t \in DOMAIN db

TableInfo(db, t) == IF HasTable(db, t) THEN db[t].columns ELSE <<>>

HasColumn(db, t, c) == HasTable(db, t) /\ \E j \in 1..Len(db[t].columns) : db[t].columns[j] = c

ColIndex(db, t, c) == CHOOSE j \in 1..Len(db[t].columns) : db[t].columns[j] = c

\* get_database_schema
get_database_schema(db) ==
    [t \in DOMAIN db |->
        [row_count    |-> Len(db[t].rows),
         columns      |-> db[t].columns,
         column_types |-> [j \in 1..Len(db[t].columns) |->
                              <<db[t].columns[j], db[t].types[j]>>]]]

(***************************************************************************)
(* infer_units_and_descriptions.  The patterns dict in its declaration     *)
(* order; the characters outside ASCII are written "mu", "sup2" and "deg". *)
(***************************************************************************)
patterns ==
    <<
      [pattern |-> <<"r", "o", "l", "l">>,
       unit |-> <<"d", "e", "g", "r", "e", "e", "s">>,
       desc |-> <<"R", "o", "l", "l", " ", "a", "n", "g", "l", "e">>],
      [pattern |-> <<"p", "i", "t", "c", "h">>,
       unit |-> <<"d", "e", "g", "r", "e", "e", "s">>,
       desc |-> <<"P", "i", "t", "c", "h", " ", "a", "n", "g", "l", "e">>],
      [pattern |-> <<"y", "a", "w">>,
       unit |-> <<"d", "e", "g", "r", "e", "e", "s">>,
       desc |-> <<"Y", "a", "w", " ", "a", "n", "g", "l", "e">>],
      [pattern |-> <<"r", "o", "l", "l", "s", "p", "e", "e", "d">>,
       unit |-> <<"d", "e", "g", "/", "s">>,
       desc |-> <<"R", "o", "l", "l", " ", "a", "n", "g", "u", "l", "a", "r", " ", "v", "e", "l", "o", "c", "i", "t", "y">>],
      [pattern |-> <<"p", "i", "t", "c", "h", "s", "p", "e", "e", "d">>,
       unit |-> <<"d", "e", "g", "/", "s">>,
       desc |-> <<"P", "i", "t", "c", "h", " ", "a", "n", "g", "u", "l", "a", "r", " ", "v", "e", "l", "o", "c", "i", "t", "y">>],
      [pattern |-> <<"y", "a", "w", "s", "p", "e", "e", "d">>,
       unit |-> <<"d", "e", "g", "/", "s">>,
       desc |-> <<"Y", "a", "w", " ", "a", "n", "g", "u", "l", "a", "r", " ", "v", "e", "l", "o", "c", "i", "t", "y">>],
      [pattern |-> <<"l", "a", "t">>,
       unit |-> <<"d", "e", "g", "r", "e", "e", "s">>,
       desc |-> <<"L", "a", "t", "i", "t", "u", "d", "e">>],
      [pattern |-> <<"l", "n", "g">>,
       unit |-> <<"d", "e", "g", "r", "e", "e", "s">>,
       desc |-> <<"L", "o", "n", "g", "i", "t", "u", "d", "e">>],
      [pattern |-> <<"l", "o", "n">>,
       unit |-> <<"d", "e", "g", "r", "e", "e", "s">>,
       desc |-> <<"L", "o", "n", "g", "i", "t", "u", "d", "e">>],
      [pattern |-> <<"a", "l", "t">>,
       unit |-> <<"m", "e", "t", "e", "r", "s">>,
       desc |-> <<"A", "l", "t", "i", "t", "u", "d", "e">>],
      [pattern |-> <<"r", "e", "l", "a", "l", "t">>,
       unit |-> <<"m", "e", "t", "e", "r", "s">>,
       desc |-> <<"R", "e", "l", "a", "t", "i", "v", "e", " ", "a", "l", "t", "i", "t", "u", "d", "e">>],
      [pattern |-> <<"v", "x">>,
       unit |-> <<"m", "/", "s">>,
       desc |-> <<"V", "e", "l", "o", "c", "i", "t", "y", " ", "X">>],
      [pattern |-> <<"v", "y">>,
       unit |-> <<"m", "/", "s">>,
       desc |-> <<"V", "e", "l", "o", "c", "i", "t", "y", " ", "Y">>],
      [pattern |-> <<"v", "z">>,
       unit |-> <<"m", "/", "s">>,
       desc |-> <<"V", "e", "l", "o", "c", "i", "t", "y", " ", "Z">>],
      [pattern |-> <<"v", "e", "l">>,
       unit |-> <<"m", "/", "s">>,
       desc |-> <<"V", "e", "l", "o", "c", "i", "t", "y">>],
      [pattern |-> <<"s", "p", "e", "e", "d">>,
       unit |-> <<"m", "/", "s">>,
       desc |-> <<"S", "p", "e", "e", "d">>],
      [pattern |-> <<"g", "r", "o", "u", "n", "d", "s", "p", "e", "e", "d">>,
       unit |-> <<"m", "/", "s">>,
       desc |-> <<"G", "r", "o", "u", "n", "d", " ", "s", "p", "e", "e", "d">>],
      [pattern |-> <<"a", "i", "r", "s", "p", "e", "e", "d">>,
       unit |-> <<"m", "/", "s">>,
       desc |-> <<"A", "i", "r", " ", "s", "p", "e", "e", "d">>],
      [pattern |-> <<"a", "c", "c", "x">>,
       unit |-> <<"m", "/", "s", "sup2">>,
       desc |-> <<"A", "c", "c", "e", "l", "e", "r", "a", "t", "i", "o", "n", " ", "X">>],
      [pattern |-> <<"a", "c", "c", "y">>,
       unit |-> <<"m", "/", "s", "sup2">>,
       desc |-> <<"A", "c", "c", "e", "l", "e", "r", "a", "t", "i", "o", "n", " ", "Y">>],
      [pattern |-> <<"a", "c", "c", "z">>,
       unit |-> <<"m", "/", "s", "sup2">>,
       desc |-> <<"A", "c", "c", "e", "l", "e", "r", "a", "t", "i", "o", "n", " ", "Z">>],
      [pattern |-> <<"a", "c", "c">>,
       unit |-> <<"m", "/", "s", "sup2">>,
       desc |-> <<"A", "c", "c", "e", "l", "e", "r", "a", "t", "i", "o", "n">>],
      [pattern |-> <<"g", "y", "r", "x">>,
       unit |-> <<"d", "e", "g", "/", "s">>,
       desc |-> <<"A", "n", "g", "u", "l", "a", "r", " ", "r", "a", "t", "e", " ", "X">>],
      [pattern |-> <<"g", "y", "r", "y">>,
       unit |-> <<"d", "e", "g", "/", "s">>,
       desc |-> <<"A", "n", "g", "u", "l", "a", "r", " ", "r", "a", "t", "e", " ", "Y">>],
      [pattern |-> <<"g", "y", "r", "z">>,
       unit |-> <<"d", "e", "g", "/", "s">>,
       desc |-> <<"A", "n", "g", "u", "l", "a", "r", " ", "r", "a", "t", "e", " ", "Z">>],
      [pattern |-> <<"p">>,
       unit |-> <<"d", "e", "g", "/", "s">>,
       desc |-> <<"R", "o", "l", "l", " ", "r", "a", "t", "e">>],
      [pattern |-> <<"q">>,
       unit |-> <<"d", "e", "g", "/", "s">>,
       desc |-> <<"P", "i", "t", "c", "h", " ", "r", "a", "t", "e">>],
      [pattern |-> <<"r">>,
       unit |-> <<"d", "e", "g", "/", "s">>,
       desc |-> <<"Y", "a", "w", " ", "r", "a", "t", "e">>],
      [pattern |-> <<"v", "o", "l", "t">>,
       unit |-> <<"V">>,
       desc |-> <<"V", "o", "l", "t", "a", "g", "e">>],
      [pattern |-> <<"c", "u", "r", "r">>,
       unit |-> <<"A">>,
       desc |-> <<"C", "u", "r", "r", "e", "n", "t">>],
      [pattern |-> <<"b", "a", "t">>,
       unit |-> <<"V">>,
       desc |-> <<"B", "a", "t", "t", "e", "r", "y", " ", "v", "o", "l", "t", "a", "g", "e">>],
      [pattern |-> <<"p", "o", "w", "e", "r">>,
       unit |-> <<"W">>,
       desc |-> <<"P", "o", "w", "e", "r">>],
      [pattern |-> <<"p", "r", "e", "s", "s">>,
       unit |-> <<"P", "a">>,
       desc |-> <<"P", "r", "e", "s", "s", "u", "r", "e">>],
      [pattern |-> <<"b", "a", "r", "o">>,
       unit |-> <<"m">>,
       desc |-> <<"B", "a", "r", "o", "m", "e", "t", "r", "i", "c", " ", "a", "l", "t", "i", "t", "u", "d", "e">>],
      [pattern |-> <<"t", "e", "m", "p">>,
       unit |-> <<"deg", "C">>,
       desc |-> <<"T", "e", "m", "p", "e", "r", "a", "t", "u", "r", "e">>],
      [pattern |-> <<"t", "h", "r">>,
       unit |-> <<"%">>,
       desc |-> <<"T", "h", "r", "o", "t", "t", "l", "e">>],
      [pattern |-> <<"t", "h", "r", "o", "t", "t", "l", "e">>,
       unit |-> <<"%">>,
       desc |-> <<"T", "h", "r", "o", "t", "t", "l", "e">>],
      [pattern |-> <<"r", "u", "d">>,
       unit |-> <<"%">>,
       desc |-> <<"R", "u", "d", "d", "e", "r">>],
      [pattern |-> <<"e", "l", "e">>,
       unit |-> <<"%">>,
       desc |-> <<"E", "l", "e", "v", "a", "t", "o", "r">>],
      [pattern |-> <<"a", "i", "l">>,
       unit |-> <<"%">>,
       desc |-> <<"A", "i", "l", "e", "r", "o", "n">>],
      [pattern |-> <<"t", "i", "m", "e", "u", "s">>,
       unit |-> <<"mu", "s">>,
       desc |-> <<"T", "i", "m", "e", " ", "(", "m", "i", "c", "r", "o", "s", "e", "c", "o", "n", "d", "s", ")">>],
      [pattern |-> <<"t", "i", "m", "e", "s", "t", "a", "m", "p">>,
       unit |-> <<"s">>,
       desc |-> <<"T", "i", "m", "e", "s", "t", "a", "m", "p">>],
      [pattern |-> <<"t", "i", "m", "e">>,
       unit |-> <<"s">>,
       desc |-> <<"T", "i", "m", "e">>]
    >>

\* str.title(): a letter that follows a non-letter is upper-cased, every other
\* letter lower-cased
IsLetter(c) == c \in Range(UpperChars) \cup Range(LowerChars)

UpperOf == [c \in Range(LowerChars) |->
               UpperChars[CHOOSE i \in 1..Len(LowerChars) : LowerChars[i] = c]]

UpperChar(c) == IF c \in DOMAIN UpperOf THEN UpperOf[c] ELSE c

Title(s) ==
    [i \in 1..Len(s) |->
        IF i = 1 \/ ~IsLetter(s[i - 1]) THEN UpperChar(s[i]) ELSE LowerChar(s[i])]

\* a plausible slip: the longest pattern contained in the name wins, whatever
\* its place in the declaration order
infer_units_and_descriptions_longestMatch(column_name) ==
    LET col_lower == Lower(column_name)
        hits      == {i \in 1..Len(patterns) : Contains(patterns[i].pattern, col_lower)}
    IN  IF hits # {}
        THEN LET best == CHOOSE i \in hits :
                             \A j \in hits :
                                 \/ Len(patterns[i].pattern) > Len(patterns[j].pattern)
                                 \/ /\ Len(patterns[i].pattern) = Len(patterns[j].pattern)
                                    /\ i <= j
             IN  [unit |-> patterns[best].unit, desc |-> patterns[best].desc]
        ELSE [unit |-> <<>>, desc |-> Title(ReplaceChar(column_name, "_", " "))]

\* a plausible slip: a name that is itself a pattern gets its own pair before
\* the substrings are tried
infer_units_and_descriptions_exactFirst(column_name) ==
    LET col_lower == Lower(column_name)
        exact     == {i \in 1..Len(patterns) : patterns[i].pattern = col_lower}
        matches   == {i \in 1..Len(patterns) : Contains(patterns[i].pattern, col_lower)}
        first(S)  == CHOOSE i \in S : \A j \in S : i <= j
    IN  IF exact # {}
        THEN [unit |-> patterns[first(exact)].unit, desc |-> patterns[first(exact)].desc]
        ELSE IF matches # {}
        THEN [unit |-> patterns[first(matches)].unit, desc |-> patterns[first(matches)].desc]
        ELSE [unit |-> <<>>, desc |-> Title(ReplaceChar(column_name, "_", " "))]

infer_units_and_descriptions(column_name) ==
    LET col_lower == Lower(column_name)
        hits      == {i \in 1..Len(patterns) : Contains(patterns[i].pattern, col_lower)}
    IN  IF hits # {}
        THEN LET first == CHOOSE i \in hits : \A j \in hits : i <= j
             IN  [unit |-> patterns[first].unit, desc |-> patterns[first].desc]
        ELSE [unit |-> <<>>, desc |-> Title(ReplaceChar(column_name, "_", " "))]

(***************************************************************************)
(* detect_numeric_columns                                                  *)
(***************************************************************************)
MinValues == 5

DefaultSampleSize == 100

\* the 80% threshold  len(numeric_values) >= len(values) * 0.8  in tenths
NumericTenths == 8

\* float(val) succeeds: an int or float cell, or text that parses as a number
Coercible(v) == v.k \in {"int", "real"} \/ (v.k = "str" /\ IsNumText(v.s))

Coerce(v) == IF v.k = "str" THEN NumTextVal(v.s) ELSE v.n

\* np.var(xs) > 0, as the sign of  n * sum(x^2) - sum(x)^2
VarianceIsPositive(xs) ==
    Len(xs) * SumSeq([i \in 1..Len(xs) |-> xs[i] * xs[i]]) - SumSeq(xs) * SumSeq(xs) > 0

\* a plausible slip: the 80% threshold is exclusive
IsNumericColumn_strict(cells) ==
    LET values         == SelectSeq(cells, LAMBDA v : v.k # "null")
        numeric_values == LET ok == SelectSeq(values, Coercible)
                          IN  [i \in 1..Len(ok) |-> Coerce(ok[i])]
    IN  /\ ~(Len(values) < MinValues)
        /\ Len(numeric_values) * 10 > Len(values) * NumericTenths
        /\ Cardinality(Range(numeric_values)) > 1
        /\ VarianceIsPositive(numeric_values)

IsNumericColumn(cells) ==
    LET values         == SelectSeq(cells, LAMBDA v : v.k # "null")
        numeric_values == LET ok == SelectSeq(values, Coercible)
                          IN  [i \in 1..Len(ok) |-> Coerce(ok[i])]
    IN  /\ ~(Len(values) < MinValues)
        /\ Len(numeric_values) * 10 >= Len(values) * NumericTenths
        /\ Cardinality(Range(numeric_values)) > 1
        /\ VarianceIsPositive(numeric_values)

\* a plausible slip: the sample is not limited, every row is read
detect_numeric_columns_allRows(db, table_name, sample_size) ==
    IF ~HasTable(db, table_name) THEN <<>>
    ELSE LET rows    == db[table_name].rows
             columns == db[table_name].columns
         IN  IF rows = <<>> THEN <<>>
             ELSE SelectSeq2(columns,
                             {columns[j] : j \in {i \in 1..Len(columns) :
                                                    IsNumericColumn(Column(rows, i))}})

\* SELECT * ... LIMIT sample_size: the first sample_size rows (SQLite reads a
\* negative LIMIT as no limit)
detect_numeric_columns(db, table_name, sample_size) ==
    IF ~HasTable(db, table_name) THEN <<>>
    ELSE LET rows    == SubSeq(db[table_name].rows, 1,
                               IF sample_size < 0 THEN Len(db[table_name].rows)
                               ELSE Min(sample_size, Len(db[table_name].rows)))
             columns == db[table_name].columns
         IN  IF rows = <<>> THEN <<>>
             ELSE SelectSeq2(columns,
                             {columns[j] : j \in {i \in 1..Len(columns) :
                                                    IsNumericColumn(Column(rows, i))}})

(***************************************************************************)
(* get_time_column                                                         *)
(***************************************************************************)
time_patterns == << <<"T","i","m","e","U","S">>,
                    <<"t","i","m","e","s","t","a","m","p">>,
                    <<"t","i","m","e","_","b","o","o","t","_","m","s">>,
                    <<"t","i","m","e">>,
                    <<"T","i","m","e">> >>

\* None
NoColumn == <<>>

RECURSIVE FirstColumnWith(_, _)
\* the first column, in stored order, whose name contains the pattern
FirstColumnWith(pattern, columns) ==
    IF columns = <<>> THEN NoColumn
    ELSE IF Contains(Lower(pattern), Lower(Head(columns))) THEN Head(columns)
    ELSE FirstColumnWith(pattern, Tail(columns))

RECURSIVE FirstPatternMatch(_, _)
FirstPatternMatch(pats, columns) ==
    IF pats = <<>> THEN NoColumn
    ELSE IF FirstColumnWith(Head(pats), columns) # NoColumn
         THEN FirstColumnWith(Head(pats), columns)
    ELSE FirstPatternMatch(Tail(pats), columns)

RECURSIVE FirstMatchingColumn(_, _)
\* a plausible slip: the loops are nested the other way round, so that column
\* order outranks pattern priority
FirstMatchingColumn(pats, columns) ==
    IF columns = <<>> THEN NoColumn
    ELSE IF \E i \in 1..Len(pats) : Contains(Lower(pats[i]), Lower(Head(columns)))
         THEN Head(columns)
    ELSE FirstMatchingColumn(pats, Tail(columns))

get_time_column_columnFirst(db, table_name) ==
    FirstMatchingColumn(time_patterns, TableInfo(db, table_name))

\* a plausible slip: a table none of whose columns matches a pattern gets its
\* first column as the time column
get_time_column_firstColumnFallback(db, table_name) ==
    IF FirstPatternMatch(time_patterns, TableInfo(db, table_name)) # NoColumn
    THEN FirstPatternMatch(time_patterns, TableInfo(db, table_name))
    ELSE IF TableInfo(db, table_name) # <<>> THEN TableInfo(db, table_name)[1]
    ELSE NoColumn

get_time_column(db, table_name) ==
    FirstPatternMatch(time_patterns, TableInfo(db, table_name))

(***************************************************************************)
(* get_all_dynamic_attributes                                              *)
(***************************************************************************)
\* a plausible slip: the time column is left among the attributes
CatalogAttributes_keepTime(db, t) == detect_numeric_columns(db, t, DefaultSampleSize)

\* the attributes of a table: its numeric columns without the time column
CatalogAttributes(db, t) ==
    LET time_col     == get_time_column(db, t)
        numeric_cols == detect_numeric_columns(db, t, DefaultSampleSize)
    IN  SelectSeq2(numeric_cols, Range(numeric_cols) \ {time_col})

\* a plausible slip: a table without a time column is not skipped
InCatalog_noTimeGate(db, t) ==
    /\ get_database_schema(db)[t].row_count # 0
    /\ detect_numeric_columns(db, t, DefaultSampleSize) # <<>>
    /\ CatalogAttributes(db, t) # <<>>

InCatalog(db, t) ==
    /\ get_database_schema(db)[t].row_count # 0
    /\ get_time_column(db, t) # NoColumn
    /\ detect_numeric_columns(db, t, DefaultSampleSize) # <<>>
    /\ CatalogAttributes(db, t) # <<>>

get_all_dynamic_attributes(db) ==
    [t \in {u \in DOMAIN get_database_schema(db) : InCatalog(db, u)} |->
        LET attributes == CatalogAttributes(db, t)
        IN  [time_col     |-> get_time_column(db, t),
             attributes   |-> attributes,
             units        |-> [i \in 1..Len(attributes) |->
                                  <<attributes[i],
                                    infer_units_and_descriptions(attributes[i]).unit>>],
             descriptions |-> [i \in 1..Len(attributes) |->
                                  <<attributes[i],
                                    infer_units_and_descriptions(attributes[i]).desc>>],
             row_count    |-> get_database_schema(db)[t].row_count]]

(***************************************************************************)
(* convert_timeus_to_datetime_and_format                                   *)
(*                                                                         *)
(* A microsecond count u is held as [hi, lo] with u = hi * 1_000_000 + lo, *)
(* 0 <= lo < 1_000_000; seconds are held as whole seconds plus             *)
(* microseconds, a datetime as seconds and nanoseconds since the epoch.    *)
(***************************************************************************)
MicrosPerSecond == 1000000

SecondsPerMinute == 60

NanosPerSecond == 1000000000

Micros(n) == [hi |-> n \div MicrosPerSecond, lo |-> n % MicrosPerSecond]

\* seconds = timeus_values / 1_000_000
ToSeconds(u) == [whole |-> u.hi, micros |-> u.lo]

\* f"{n:02d}"
Pad2(n) == IF 0 <= n /\ n < 10 THEN <<"0">> \o IntStr(n) ELSE IntStr(n)

\* a plausible slip: the minutes roll over at the hour
format_time_hourRollover(sec) ==
    LET minutes           == (sec.whole \div SecondsPerMinute) % 60
        seconds_remainder == sec.whole % SecondsPerMinute
    IN  IntStr(minutes) \o <<":">> \o Pad2(seconds_remainder)

\* minutes = int(sec // 60); seconds_remainder = int(sec % 60)
format_time(sec) ==
    LET minutes           == sec.whole \div SecondsPerMinute
        seconds_remainder == sec.whole % SecondsPerMinute
    IN  IntStr(minutes) \o <<":">> \o Pad2(seconds_remainder)

NaT == [nat |-> TRUE, sec |-> 0, nsec |-> 0]

DateTime(sec, nanos) == [nat |-> FALSE, sec |-> sec, nsec |-> nanos]

\* pd.to_datetime(seconds, unit='s') of one value
SecondsToDatetime(sec) == DateTime(sec.whole, sec.micros * 1000)

convert_timeus_to_datetime_and_format(u) ==
    [datetime  |-> SecondsToDatetime(ToSeconds(u)),
     formatted |-> format_time(ToSeconds(u))]

(***************************************************************************)
(* get_chart_data                                                          *)
(***************************************************************************)
NoLimit == [some |-> FALSE, n |-> 0]

Limit(n) == [some |-> TRUE, n |-> n]

Failure(reason) == [tag |-> "error", reason |-> reason]

IsFailure(r) == r.tag = "error"

\* the dtype pd.read_sql_query gives a column of fetched cells
SqlDtype(cells) ==
    LET present == {i \in 1..Len(cells) : cells[i].k # "null"}
    IN  IF \E i \in present : cells[i].k = "str" THEN "object"
        ELSE IF present = {} THEN "object"
        ELSE IF present = 1..Len(cells) /\ \A i \in present : cells[i].k = "int"
             THEN "int64"
        ELSE "float64"

\* Series.astype(str) of one value
AsStr(v, dtype) ==
    IF v.k = "null" THEN (IF dtype = "object" THEN <<"N","o","n","e">> ELSE <<"n","a","n">>)
    ELSE IF v.k = "str" THEN v.s
    ELSE IF dtype = "float64" THEN RealStr(v.n)
    ELSE IntStr(v.n)

\* pd.to_datetime(value, errors='coerce'): a number counts nanoseconds since the
\* epoch; a missing value, or text that is no date, becomes NaT
ToDatetimeCoerce(v) ==
    IF v.k \in {"int", "real"}
    THEN DateTime(v.n \div NanosPerSecond, v.n % NanosPerSecond)
    ELSE NaT

\* SELECT columns FROM [message_type] (LIMIT n when the limit is truthy;
\* a negative LIMIT is no limit in SQLite)
SelectRows(db, t, columns, limit) ==
    LET all   == db[t].rows
        count == IF limit.some /\ limit.n # 0 /\ limit.n >= 0
                 THEN Min(limit.n, Len(all)) ELSE Len(all)
    IN  [i \in 1..count |->
            [j \in 1..Len(columns) |-> all[i][ColIndex(db, t, columns[j])]]]

\* the exception pd.read_sql_query raises for the SELECT, "" when it runs
SqlError(db, t, columns) ==
    IF columns = <<>> THEN "syntax error"
    ELSE IF ~HasTable(db, t) THEN "no such table"
    ELSE IF \E i \in 1..Len(columns) : ~HasColumn(db, t, columns[i]) THEN "no such column"
    ELSE ""

Chart(message_type, columns, attributes, rows, datetime, time_formatted) ==
    [tag            |-> "chart",
     data           |-> rows,
     datetime       |-> datetime,
     time_formatted |-> time_formatted,
     columns        |-> columns,
     time_column    |-> "datetime",
     attributes     |-> attributes,
     message_type   |-> message_type]

\* a plausible slip: every time column is taken for a microsecond counter
ChartFromRows_alwaysMicros(message_type, time_col, attributes, rows) ==
    LET times == Column(rows, 1)
        dtype == SqlDtype(times)
    IN  IF rows = <<>> THEN Failure("No data found")
        ELSE IF time_col \in Range(attributes)
        THEN Failure("cannot assemble with duplicate keys")
        ELSE IF dtype = "object"
        THEN Failure("unsupported operand type(s) for /")
        ELSE IF dtype = "float64" /\ \E i \in 1..Len(times) : times[i].k = "null"
        THEN Failure("cannot convert float NaN to integer")
        ELSE Chart(message_type, <<time_col>> \o attributes, attributes, rows,
                   [i \in 1..Len(rows) |->
                       convert_timeus_to_datetime_and_format(Micros(times[i].n)).datetime],
                   [i \in 1..Len(rows) |->
                       convert_timeus_to_datetime_and_format(Micros(times[i].n)).formatted])

\* the part of get_chart_data after the query: the empty check and the
\* conversion of the time column (df[time_col] is a frame, and the conversion
\* raises, when the attributes name the time column again)
ChartFromRows(message_type, time_col, attributes, rows) ==
    LET times == Column(rows, 1)
        dtype == SqlDtype(times)
    IN  IF rows = <<>> THEN Failure("No data found")
        ELSE IF time_col \in Range(attributes)
        THEN Failure("cannot assemble with duplicate keys")
        ELSE IF Contains(<<"t","i","m","e","u","s">>, Lower(time_col))
        THEN IF dtype = "object"
             THEN Failure("unsupported operand type(s) for /")
             ELSE IF dtype = "float64" /\ \E i \in 1..Len(times) : times[i].k = "null"
             THEN Failure("cannot convert float NaN to integer")
             ELSE Chart(message_type, <<time_col>> \o attributes, attributes, rows,
                        [i \in 1..Len(rows) |->
                            convert_timeus_to_datetime_and_format(Micros(times[i].n)).datetime],
                        [i \in 1..Len(rows) |->
                            convert_timeus_to_datetime_and_format(Micros(times[i].n)).formatted])
        ELSE Chart(message_type, <<time_col>> \o attributes, attributes, rows,
                   [i \in 1..Len(rows) |-> ToDatetimeCoerce(times[i])],
                   [i \in 1..Len(rows) |-> AsStr(times[i], dtype)])

\* a plausible slip: the query runs before the time column is checked
get_chart_data_readFirst(db, message_type, attributes, limit) ==
    LET time_col == get_time_column(db, message_type)
    IN  IF attributes # <<>> /\ SqlError(db, message_type, attributes) # ""
        THEN Failure(SqlError(db, message_type, attributes))
        ELSE IF time_col = NoColumn THEN Failure("No time column found")
        ELSE ChartFromRows(message_type, time_col, attributes,
                           SelectRows(db, message_type, <<time_col>> \o attributes, limit))

\* a plausible slip: the time column is resolved, and its absence raised,
\* before the try block is entered, so the ValueError reaches the caller
get_chart_data_raisesNoTimeColumn(db, message_type, attributes, limit) ==
    LET time_col == get_time_column(db, message_type)
        columns  == <<time_col>> \o attributes
    IN  IF time_col = NoColumn
        THEN [tag |-> "raised", reason |-> "No time column found"]
        ELSE IF SqlError(db, message_type, columns) # ""
        THEN Failure(SqlError(db, message_type, columns))
        ELSE ChartFromRows(message_type, time_col, attributes,
                           SelectRows(db, message_type, columns, limit))

get_chart_data(db, message_type, attributes, limit) ==
    LET time_col == get_time_column(db, message_type)
        columns  == <<time_col>> \o attributes
    IN  IF time_col = NoColumn THEN Failure("No time column found")
        ELSE IF SqlError(db, message_type, columns) # ""
        THEN Failure(SqlError(db, message_type, columns))
        ELSE ChartFromRows(message_type, time_col, attributes,
                           SelectRows(db, message_type, columns, limit))

(***************************************************************************)
(* calculate_data_statistics                                               *)
(*                                                                         *)
(* A float is held as a fraction <<numerator, denominator>>; NaN is        *)
(* <<0, 0>>.  std is held as its square, the sample variance.              *)
(***************************************************************************)
NaN == <<0, 0>>

SeqMin(xs) == CHOOSE x \in Range(xs) : \A y \in Range(xs) : x <= y

SeqMax(xs) == CHOOSE x \in Range(xs) : \A y \in Range(xs) : x >= y

\* a plausible slip: a missing value counts as a value of 0
ColumnStatistics_nullAsZero(cells) ==
    LET xs    == [i \in 1..Len(cells) |-> cells[i].n]
        n     == Len(xs)
        sum   == SumSeq(xs)
        sumsq == SumSeq([i \in 1..n |-> xs[i] * xs[i]])
    IN  [mean    |-> IF n = 0 THEN NaN ELSE <<sum, n>>,
         std_sq  |-> IF n < 2 THEN NaN ELSE <<n * sumsq - sum * sum, n * (n - 1)>>,
         min     |-> IF n = 0 THEN NaN ELSE <<SeqMin(xs), 1>>,
         max     |-> IF n = 0 THEN NaN ELSE <<SeqMax(xs), 1>>,
         count   |-> n]

ColumnStatistics(cells) ==
    LET present == SelectSeq(cells, LAMBDA v : v.k # "null")
        xs      == [i \in 1..Len(present) |-> present[i].n]
        n       == Len(xs)
        sum     == SumSeq(xs)
        sumsq   == SumSeq([i \in 1..n |-> xs[i] * xs[i]])
    IN  [mean    |-> IF n = 0 THEN NaN ELSE <<sum, n>>,
         std_sq  |-> IF n < 2 THEN NaN ELSE <<n * sumsq - sum * sum, n * (n - 1)>>,
         min     |-> IF n = 0 THEN NaN ELSE <<SeqMin(xs), 1>>,
         max     |-> IF n = 0 THEN NaN ELSE <<SeqMax(xs), 1>>,
         count   |-> n]

\* a plausible slip: the check for an empty frame is missing
calculate_data_statistics_noEmptyCheck(db, message_type, attributes) ==
    IF SqlError(db, message_type, attributes) # ""
    THEN Failure(SqlError(db, message_type, attributes))
    ELSE LET rows == SelectRows(db, message_type, attributes, NoLimit)
         IN  IF Len(Dedup(attributes)) # Len(attributes)
             THEN Failure("cannot convert the series to float")
             ELSE IF \E j \in 1..Len(attributes) :
                        \E i \in 1..Len(rows) : rows[i][j].k = "str"
             THEN Failure("could not convert string to numeric")
             ELSE [tag   |-> "stats",
                   stats |-> [j \in 1..Len(attributes) |->
                                 <<attributes[j], ColumnStatistics(Column(rows, j))>>]]

calculate_data_statistics(db, message_type, attributes) ==
    IF SqlError(db, message_type, attributes) # ""
    THEN Failure(SqlError(db, message_type, attributes))
    ELSE LET rows == SelectRows(db, message_type, attributes, NoLimit)
         IN  IF rows = <<>> THEN Failure("No data found")
             ELSE IF Len(Dedup(attributes)) # Len(attributes)
             THEN Failure("cannot convert the series to float")
             ELSE IF \E j \in 1..Len(attributes) :
                        \E i \in 1..Len(rows) : rows[i][j].k = "str"
             THEN Failure("could not convert string to numeric")
             ELSE [tag   |-> "stats",
                   stats |-> [j \in 1..Len(attributes) |->
                                 <<attributes[j], ColumnStatistics(Column(rows, j))>>]]

(***************************************************************************)
(* Names used by the logs and the calls of the model                       *)
(***************************************************************************)
ATT == <<"A","T","T">>

MSG == <<"M","S","G">>

UnknownTable == <<"N","O","N","E">>

TimeUS == <<"T","i","m","e","U","S">>

Roll == <<"R","o","l","l">>

Mode == <<"M","o","d","e">>

Alt == <<"A","l","t">>

Text == <<"T","e","x","t">>

Val == <<"V","a","l">>

Nope == <<"N","o","p","e">>

A_B == <<"A","_","B">>

A_dash_B == <<"A","-","B">>

A_space_B == <<"A"," ","B">>

Message(type, fields) ==
    [type |-> type, fieldnames |-> Keys(fields), fields |-> fields, ok |-> TRUE]

\* a message whose to_dict() raises
FailingMessage(type, fields) ==
    [type |-> type, fieldnames |-> Keys(fields), fields |-> fields, ok |-> FALSE]

(***************************************************************************)
(* The logs of the main specification: every sequence of at most MaxLogLen *)
(* messages, each one of four kinds; the message at position t carries the *)
(* time stamp t.                                                           *)
(*   1  ATT  TimeUS = t, Roll = t, Mode = 7                                *)
(*   2  ATT  TimeUS = t, Roll = "x", Mode = 7                              *)
(*   3  ATT  TimeUS = t, Mode = 7, Alt = t      (no Roll, a new field Alt) *)
(*   4  MSG  Text = "x", Val = t                (no time field)            *)
(* The other specifications draw on further kinds:                         *)
(*   5  ATT  as kind 1, but to_dict() raises                               *)
(*   6  BAD_DATA  Val = t                       (a sentinel type)          *)
(*   7  ATT  Roll = t, Mode = 7                 (no TimeUS)                *)
(*   8  A_B  TimeUS = t, Roll = t                                          *)
(*   9  A-B  TimeUS = t, Alt = t                                           *)
(*  10  A B  TimeUS = t, Val = t                                           *)
(***************************************************************************)
MaxLogLen == 5

Kinds == 1..4

MessageOfKind(kind, t) ==
    CASE kind = 1 -> Message(ATT, << <<TimeUS, IntV(t)>>, <<Roll, IntV(t)>>, <<Mode, IntV(7)>> >>)
      [] kind = 2 -> Message(ATT, << <<TimeUS, IntV(t)>>, <<Roll, StrV(<<"x">>)>>, <<Mode, IntV(7)>> >>)
      [] kind = 3 -> Message(ATT, << <<TimeUS, IntV(t)>>, <<Mode, IntV(7)>>, <<Alt, IntV(t)>> >>)
      [] kind = 4 -> Message(MSG, << <<Text, StrV(<<"x">>)>>, <<Val, IntV(t)>> >>)
      [] kind = 5 -> FailingMessage(ATT, << <<TimeUS, IntV(t)>>, <<Roll, IntV(t)>>, <<Mode, IntV(7)>> >>)
      [] kind = 6 -> Message(BAD_DATA, << <<Val, IntV(t)>> >>)
      [] kind = 7 -> Message(ATT, << <<Roll, IntV(t)>>, <<Mode, IntV(7)>> >>)
      [] kind = 8 -> Message(A_B, << <<TimeUS, IntV(t)>>, <<Roll, IntV(t)>> >>)
      [] kind = 9 -> Message(A_dash_B, << <<TimeUS, IntV(t)>>, <<Alt, IntV(t)>> >>)
      [] kind = 10 -> Message(A_space_B, << <<TimeUS, IntV(t)>>, <<Val, IntV(t)>> >>)

Logs ==
    UNION { { [t \in 1..n |-> MessageOfKind(kinds[t], t)] : kinds \in [1..n -> Kinds] }
            : n \in 0..MaxLogLen }

(***************************************************************************)
(* State: the log to ingest, the store the caller holds (closed until a    *)
(* log is materialized), the value returned by the call in progress, and   *)
(* what the Streamlit session keeps between runs: the store and the        *)
(* catalog of the log processed last, None until a log has been processed. *)
(***************************************************************************)
NoResult == [op |-> "none"]

None == [some |-> FALSE, value |-> EmptyDb]

Some(v) == [some |-> TRUE, value |-> v]

NoSession == [processed_data |-> None, dynamic_attrs |-> None]

Idle == result.op = "none"

Init ==
    /\ logfile \in Logs
    /\ store = [open |-> FALSE, db |-> EmptyDb]
    /\ result = NoResult
    /\ session_state = NoSession

\* materialize: parse_all_mavlink_messages_to_csv, then load_csvs_to_temp_db;
\* the caller holds the new store in place of the one it held before (replaced)
Materialize ==
    /\ Idle
    /\ LET csv_files == parse_all_mavlink_messages_to_csv(logfile)
       IN  /\ store' = [open |-> TRUE, db |-> load_csvs_to_temp_db(csv_files)]
           /\ result' = [op |-> "materialize", csv_files |-> csv_files,
                         replaced |-> store.db]
    /\ UNCHANGED <<logfile, session_state>>

\* the arguments the calls are tried with
Tables == (DOMAIN store.db) \cup {UnknownTable}

AttrChoices == { <<>>, <<Roll>>, <<Roll, Nope>>, <<Val>> }

LimitChoices == { NoLimit, Limit(0), Limit(2) }

\* a plausible slip: describe tidies the store, dropping the tables it finds
\* to have no rows
Describe_dropsEmptyTables ==
    /\ Idle /\ store.open
    /\ result' = [op |-> "describe", ret |-> get_database_schema(store.db)]
    /\ store' = [open |-> TRUE,
                 db   |-> [t \in {u \in DOMAIN store.db : Len(store.db[u].rows) > 0}
                              |-> store.db[t]]]
    /\ UNCHANGED <<logfile, session_state>>

Describe ==
    /\ Idle /\ store.open
    /\ result' = [op |-> "describe", ret |-> get_database_schema(store.db)]
    /\ UNCHANGED <<logfile, store, session_state>>

Classify ==
    /\ Idle /\ store.open
    /\ \E t \in Tables :
          result' = [op |-> "classify", table |-> t,
                     ret |-> detect_numeric_columns(store.db, t, DefaultSampleSize)]
    /\ UNCHANGED <<logfile, store, session_state>>

ResolveTime ==
    /\ Idle /\ store.open
    /\ \E t \in Tables :
          result' = [op |-> "resolve_time", table |-> t,
                     ret |-> get_time_column(store.db, t)]
    /\ UNCHANGED <<logfile, store, session_state>>

BuildCatalog ==
    /\ Idle /\ store.open
    /\ result' = [op |-> "build_catalog", ret |-> get_all_dynamic_attributes(store.db)]
    /\ UNCHANGED <<logfile, store, session_state>>

\* a plausible slip: the frame of the query, cut to the selected columns and the
\* row limit, is written back over the table (to_sql with if_exists='replace')
GetSeries_writesBack ==
    /\ Idle /\ store.open
    /\ \E t \in Tables, attributes \in AttrChoices, limit \in LimitChoices :
          LET ret == get_chart_data(store.db, t, attributes, limit)
          IN  /\ result' = [op |-> "get_series", table |-> t, attributes |-> attributes,
                            limit |-> limit, ret |-> ret]
              /\ store' = IF IsFailure(ret) THEN store
                          ELSE [open |-> TRUE,
                                db   |-> to_sql(store.db, t,
                                                [columns |-> ret.columns,
                                                 dtypes  |-> [j \in 1..Len(ret.columns) |->
                                                                 SqlDtype(Column(ret.data, j))],
                                                 rows    |-> ret.data])]
    /\ UNCHANGED <<logfile, session_state>>

GetSeries ==
    /\ Idle /\ store.open
    /\ \E t \in Tables, attributes \in AttrChoices, limit \in LimitChoices :
          result' = [op |-> "get_series", table |-> t, attributes |-> attributes,
                     limit |-> limit,
                     ret |-> get_chart_data(store.db, t, attributes, limit)]
    /\ UNCHANGED <<logfile, store, session_state>>

GetStatistics ==
    /\ Idle /\ store.open
    /\ \E t \in Tables, attributes \in AttrChoices :
          result' = [op |-> "get_statistics", table |-> t, attributes |-> attributes,
                     ret |-> calculate_data_statistics(store.db, t, attributes)]
    /\ UNCHANGED <<logfile, store, session_state>>

\* the caller takes the returned value; the next call can start
Return ==
    /\ ~Idle
    /\ result' = NoResult
    /\ UNCHANGED <<logfile, store, session_state>>

Next ==
    \/ Materialize
    \/ Describe
    \/ Classify
    \/ ResolveTime
    \/ BuildCatalog
    \/ GetSeries
    \/ GetStatistics
    \/ Return

Spec == Init /\ [][Next]_vars

(***************************************************************************)
(* The logs of the time-column specification: one message type whose field *)
(* list is any sequence of at most MaxFields distinct names of FieldNames; *)
(* one message, or two where the second has the same fields or lacks the   *)
(* first.  Field j of message t holds (t - 1) * 1_500_000_000 + j, except  *)
(* Roll, which holds t.                                                    *)
(***************************************************************************)
GPS == <<"G","P","S">>

FooTimeBootMs == <<"f","o","o","_","t","i","m","e","_","b","o","o","t","_","m","s">>

Timestamp == <<"t","i","m","e","s","t","a","m","p">>

BareTime == <<"T","i","m","e">>

UpperTimeUS == <<"X","_","T","I","M","E","U","S">>

FieldNames == {TimeUS, FooTimeBootMs, Timestamp, BareTime, UpperTimeUS, Roll}

MaxFields == 3

FieldLists ==
    UNION { {f \in [1..n -> FieldNames] : \A i, j \in 1..n : i # j => f[i] # f[j]}
            : n \in 0..MaxFields }

FieldValue(name, t, j) == IF name = Roll THEN t ELSE (t - 1) * 1500000000 + j

GpsMessage(names, t) ==
    Message(GPS, [j \in 1..Len(names) |-> <<names[j], IntV(FieldValue(names[j], t, j))>>])

TimeLogs ==
    UNION { { <<GpsMessage(f, 1)>>,
              <<GpsMessage(f, 1), GpsMessage(f, 2)>>,
              <<GpsMessage(f, 1), GpsMessage(IF f = <<>> THEN f ELSE Tail(f), 2)>> }
            : f \in FieldLists }

InitTime ==
    /\ logfile \in TimeLogs
    /\ store = [open |-> FALSE, db |-> EmptyDb]
    /\ result = NoResult
    /\ session_state = NoSession

SpecTime == InitTime /\ [][Next]_vars

(***************************************************************************)
(* The normalizer on its own: any microsecond count below                  *)
(* (MaxSeconds + 1) * 1_000_000 whose microsecond part is 0, 1 or 999_999. *)
(***************************************************************************)
MaxSeconds == 3700

RawTimes == {[hi |-> h, lo |-> l] : h \in 0..MaxSeconds, l \in {0, 1, MicrosPerSecond - 1}}

InitNormalize ==
    /\ logfile = <<>>
    /\ store = [open |-> FALSE, db |-> EmptyDb]
    /\ result = NoResult
    /\ session_state = NoSession

Normalize ==
    /\ Idle
    /\ \E u \in RawTimes :
          result' = [op |-> "normalize", raw |-> u,
                     ret |-> convert_timeus_to_datetime_and_format(u)]
    /\ UNCHANGED <<logfile, store, session_state>>

NextNormalize ==
    \/ Normalize
    \/ Return

SpecNormalize == InitNormalize /\ [][NextNormalize]_vars

(***************************************************************************)
(* The annotator on its own: every column name made of at most             *)
(* MaxNameParts of the parts below, written one after the other.           *)
(***************************************************************************)
MaxNameParts == 3

NameParts == { <<"R","o","l","l">>, <<"s","p","e","e","d">>, <<"t","i","m","e">>,
               <<"U","S">>, <<"s","t","a","m","p">>, <<"_">>, <<"Z">>, <<"g","1">> }

ColumnNames ==
    UNION { {Flatten(parts) : parts \in [1..n -> NameParts]} : n \in 0..MaxNameParts }

InitAnnotate ==
    /\ logfile = <<>>
    /\ store = [open |-> FALSE, db |-> EmptyDb]
    /\ result = NoResult
    /\ session_state = NoSession

Annotate ==
    /\ Idle
    /\ \E column_name \in ColumnNames :
          result' = [op |-> "annotate", name |-> column_name,
                     ret |-> infer_units_and_descriptions(column_name)]
    /\ UNCHANGED <<logfile, store, session_state>>

NextAnnotate ==
    \/ Annotate
    \/ Return

SpecAnnotate == InitAnnotate /\ [][NextAnnotate]_vars

(***************************************************************************)
(* The annotator applied to the keys of its own table, next to the column  *)
(* names above.                                                            *)
(***************************************************************************)
AnnotateKey ==
    /\ Idle
    /\ \E k \in 1..Len(patterns) :
          result' = [op |-> "annotate_key", key |-> k, name |-> patterns[k].pattern,
                     ret |-> infer_units_and_descriptions(patterns[k].pattern)]
    /\ UNCHANGED <<logfile, store, session_state>>

NextKeys ==
    \/ AnnotateKey
    \/ Annotate
    \/ Return

SpecKeys == InitAnnotate /\ [][NextKeys]_vars

(***************************************************************************)
(* The logs of the ingestion specification: every sequence of at most      *)
(* MaxIngestLen messages of the kinds 1, 3, 4, 5 and 6: records that lack  *)
(* a column of their table, conversions that fail, a sentinel type.        *)
(***************************************************************************)
MaxIngestLen == 4

IngestKinds == {1, 3, 4, 5, 6}

IngestLogs ==
    UNION { { [t \in 1..n |-> MessageOfKind(kinds[t], t)] : kinds \in [1..n -> IngestKinds] }
            : n \in 0..MaxIngestLen }

InitIngest ==
    /\ logfile \in IngestLogs
    /\ store = [open |-> FALSE, db |-> EmptyDb]
    /\ result = NoResult
    /\ session_state = NoSession

SpecIngest == InitIngest /\ [][Next]_vars

(***************************************************************************)
(* Ingesting one log after another: the logs are the sequences of at most  *)
(* MaxReingestLen messages of the kinds 1, 3 and 4; the user can choose a  *)
(* new log file at any time, and the store the session holds stays the one *)
(* of the log before until the new log is materialized.                    *)
(***************************************************************************)
MaxReingestLen == 2

ReingestKinds == {1, 3, 4}

ReingestLogs ==
    UNION { { [t \in 1..n |-> MessageOfKind(kinds[t], t)] : kinds \in [1..n -> ReingestKinds] }
            : n \in 0..MaxReingestLen }

InitReingest ==
    /\ logfile \in ReingestLogs
    /\ store = [open |-> FALSE, db |-> EmptyDb]
    /\ result = NoResult
    /\ session_state = NoSession

\* the user uploads another log file
Upload ==
    /\ Idle
    /\ \E log \in ReingestLogs : logfile' = log
    /\ UNCHANGED <<store, result, session_state>>

NextReingest ==
    \/ Next
    \/ Upload

SpecReingest == InitReingest /\ [][NextReingest]_vars

(***************************************************************************)
(* The logs of the end-to-end specification: at most MaxTypeRecords        *)
(* messages of type ATT (kind 1) and at most MaxTypeRecords messages of a  *)
(* type STR all of whose fields are strings, one type after the other in   *)
(* either order.  The message at position t carries t.  The shapes of STR: *)
(*   1  Text = "x"                                                         *)
(*   2  Text = "x", Code = str(t)                                          *)
(*   3  timestamp = "x", Text = "x"                                        *)
(*   4  timestamp = str(t), Code = str(t)                                  *)
(***************************************************************************)
MaxTypeRecords == 5

STR == <<"S","T","R">>

Code == <<"C","o","d","e">>

StrShapes == 1..4

StrMessage(shape, t) ==
    CASE shape = 1 -> Message(STR, << <<Text, StrV(<<"x">>)>> >>)
      [] shape = 2 -> Message(STR, << <<Text, StrV(<<"x">>)>>, <<Code, StrV(NatStr(t))>> >>)
      [] shape = 3 -> Message(STR, << <<Timestamp, StrV(<<"x">>)>>, <<Text, StrV(<<"x">>)>> >>)
      [] shape = 4 -> Message(STR, << <<Timestamp, StrV(NatStr(t))>>, <<Code, StrV(NatStr(t))>> >>)

EndToEndLogs ==
    UNION { { [t \in 1..(a + b) |->
                 IF t <= a THEN MessageOfKind(1, t) ELSE StrMessage(shape, t)],
              [t \in 1..(a + b) |->
                 IF t <= b THEN StrMessage(shape, t) ELSE MessageOfKind(1, t)] }
            : a \in 0..MaxTypeRecords, b \in 0..MaxTypeRecords, shape \in StrShapes }

InitEndToEnd ==
    /\ logfile \in EndToEndLogs
    /\ store = [open |-> FALSE, db |-> EmptyDb]
    /\ result = NoResult
    /\ session_state = NoSession

SpecEndToEnd == InitEndToEnd /\ [][Next]_vars

(***************************************************************************)
(* The read functions take any connection.  The store specification hands  *)
(* them the store materialized from a log of at most MaxStoreLen messages  *)
(* of the kinds 1, 2, 3, 4 and 7, or that store with every table emptied   *)
(* (a table of zero rows keeps its columns), and lets the caller call      *)
(* describe a second time while it still holds the first answer.           *)
(***************************************************************************)
MaxStoreLen == 3

StoreKinds == {1, 2, 3, 4, 7}

StoreLogs ==
    UNION { { [t \in 1..n |-> MessageOfKind(kinds[t], t)] : kinds \in [1..n -> StoreKinds] }
            : n \in 0..MaxStoreLen }

\* the store with the rows of every table deleted
Emptied(db) ==
    [t \in DOMAIN db |->
        [columns |-> db[t].columns, types |-> db[t].types, rows |-> <<>>]]

InitStore ==
    /\ logfile \in StoreLogs
    /\ \E db \in { load_csvs_to_temp_db(parse_all_mavlink_messages_to_csv(logfile)),
                    Emptied(load_csvs_to_temp_db(parse_all_mavlink_messages_to_csv(logfile))) } :
          store = [open |-> TRUE, db |-> db]
    /\ result = NoResult
    /\ session_state = NoSession

\* describe called again by a caller that holds the answer of the call before
DescribeAgain ==
    /\ result.op = "describe"
    /\ result' = [op |-> "describe_again", first |-> result.ret,
                  ret |-> get_database_schema(store.db)]
    /\ UNCHANGED <<logfile, store, session_state>>

NextStore ==
    \/ Next
    \/ DescribeAgain

SpecStore == InitStore /\ [][NextStore]_vars

(***************************************************************************)
(* The logs of the table-name specification: every sequence of at most     *)
(* MaxNamesLen messages of the kinds 1, 8, 9 and 10, whose types ATT, A_B, *)
(* A-B and "A B" are four message types and three table names.             *)
(***************************************************************************)
MaxNamesLen == 4

NamesKinds == {1, 8, 9, 10}

NamesLogs ==
    UNION { { [t \in 1..n |-> MessageOfKind(kinds[t], t)] : kinds \in [1..n -> NamesKinds] }
            : n \in 0..MaxNamesLen }

InitNames ==
    /\ logfile \in NamesLogs
    /\ store = [open |-> FALSE, db |-> EmptyDb]
    /\ result = NoResult
    /\ session_state = NoSession

SpecNames == InitNames /\ [][Next]_vars

(***************************************************************************)
(* The logs of the sampling specification: every sequence of at most       *)
(* MaxSampleLen messages of the kinds 1 and 3, so that the table ATT can   *)
(* be longer than the sample the classifier reads, and Roll and Alt are    *)
(* null in some rows and vary in others.  The classifier is called with    *)
(* every sample size from 0 to MaxSampleLen.                               *)
(***************************************************************************)
MaxSampleLen == 8

SampleKinds == {1, 3}

SampleLogs ==
    UNION { { [t \in 1..n |-> MessageOfKind(kinds[t], t)] : kinds \in [1..n -> SampleKinds] }
            : n \in 0..MaxSampleLen }

SampleSizes == 0..MaxSampleLen

InitSample ==
    /\ logfile \in SampleLogs
    /\ store = [open |-> FALSE, db |-> EmptyDb]
    /\ result = NoResult
    /\ session_state = NoSession

ClassifySample ==
    /\ Idle /\ store.open
    /\ \E t \in Tables, sample_size \in SampleSizes :
          result' = [op |-> "classify_sample", table |-> t, sample_size |-> sample_size,
                     ret |-> detect_numeric_columns(store.db, t, sample_size)]
    /\ UNCHANGED <<logfile, store, session_state>>

NextSample ==
    \/ Materialize
    \/ ClassifySample
    \/ Return

SpecSample == InitSample /\ [][NextSample]_vars

(***************************************************************************)
(* Plotting what the catalog offers: the logs are the sequences of at most *)
(* MaxPlotLen messages of the kinds 1, 3 and 7 (records that lack Roll,    *)
(* records that lack TimeUS).  The user picks a message type of the        *)
(* catalog and a non-empty selection of its attributes; the record slider  *)
(* starts at MinRecords.                                                   *)
(***************************************************************************)
MaxPlotLen == 6

PlotKinds == {1, 3, 7}

PlotLogs ==
    UNION { { [t \in 1..n |-> MessageOfKind(kinds[t], t)] : kinds \in [1..n -> PlotKinds] }
            : n \in 0..MaxPlotLen }

MinRecords == 100

PlotLimits == {NoLimit, Limit(MinRecords)}

InitPlot ==
    /\ logfile \in PlotLogs
    /\ store = [open |-> FALSE, db |-> EmptyDb]
    /\ result = NoResult
    /\ session_state = NoSession

\* the selectbox over the catalog's message types, the multiselect over the
\* attributes of the selected type, then get_chart_data
PlotSelection ==
    /\ Idle /\ store.open
    /\ LET dynamic_attrs == get_all_dynamic_attributes(store.db)
       IN  \E selected_message \in DOMAIN dynamic_attrs, max_records \in PlotLimits :
             \E selection \in (SUBSET Range(dynamic_attrs[selected_message].attributes)) \ {{}} :
                LET selected_attributes ==
                        SelectSeq2(dynamic_attrs[selected_message].attributes, selection)
                IN  result' = [op |-> "plot", table |-> selected_message,
                               attributes |-> selected_attributes,
                               limit |-> max_records,
                               ret |-> get_chart_data(store.db, selected_message,
                                                      selected_attributes, max_records)]
    /\ UNCHANGED <<logfile, store, session_state>>

NextPlot ==
    \/ Materialize
    \/ BuildCatalog
    \/ PlotSelection
    \/ Return

SpecPlot == InitPlot /\ [][NextPlot]_vars

(***************************************************************************)
(* The Streamlit session: the user uploads a log file and presses "Process *)
(* Log File", any number of times.  The logs are the sequences of at most  *)
(* MaxSessionLen messages of the kinds 1 and 6: logs without a valid       *)
(* message, logs whose table has too few rows for the catalog, logs with a *)
(* catalog.  Parsing or loading can raise for any file (an unreadable      *)
(* upload, a full disk).                                                   *)
(***************************************************************************)
MaxSessionLen == 6

SessionKinds == {1, 6}

SessionLogs ==
    UNION { { [t \in 1..n |-> MessageOfKind(kinds[t], t)] : kinds \in [1..n -> SessionKinds] }
            : n \in 0..MaxSessionLen }

InitSession ==
    /\ logfile \in SessionLogs
    /\ store = [open |-> FALSE, db |-> EmptyDb]
    /\ result = NoResult
    /\ session_state = NoSession

UploadFile ==
    /\ Idle
    /\ \E log \in SessionLogs : logfile' = log
    /\ UNCHANGED <<store, result, session_state>>

\* a plausible slip: the connection is stored in the session as soon as it is
\* loaded, before the catalog is built and checked
ProcessLog_storesConnectionFirst ==
    /\ Idle
    /\ \E raises \in BOOLEAN :
          LET csv_files     == parse_all_mavlink_messages_to_csv(logfile)
              conn          == load_csvs_to_temp_db(csv_files)
              dynamic_attrs == get_all_dynamic_attributes(conn)
              outcome       == IF raises THEN "raised"
                               ELSE IF csv_files = <<>> THEN "no_messages"
                               ELSE IF DOMAIN dynamic_attrs = {} THEN "no_attributes"
                               ELSE "success"
          IN  /\ session_state' =
                     IF outcome = "success"
                     THEN [processed_data |-> Some(conn),
                           dynamic_attrs  |-> Some(dynamic_attrs)]
                     ELSE IF outcome = "no_attributes"
                     THEN [session_state EXCEPT !.processed_data = Some(conn)]
                     ELSE session_state
              /\ result' = [op |-> "process", outcome |-> outcome,
                            before |-> session_state]
    /\ UNCHANGED <<logfile, store>>

\* the "Process Log File" button: parse, load, build the catalog; the session
\* is assigned only after both checks have passed, and an exception from any
\* step is caught and reported (before is the session as the attempt found it)
ProcessLog ==
    /\ Idle
    /\ \E raises \in BOOLEAN :
          LET csv_files     == parse_all_mavlink_messages_to_csv(logfile)
              conn          == load_csvs_to_temp_db(csv_files)
              dynamic_attrs == get_all_dynamic_attributes(conn)
              outcome       == IF raises THEN "raised"
                               ELSE IF csv_files = <<>> THEN "no_messages"
                               ELSE IF DOMAIN dynamic_attrs = {} THEN "no_attributes"
                               ELSE "success"
          IN  /\ session_state' =
                     IF outcome = "success"
                     THEN [processed_data |-> Some(conn),
                           dynamic_attrs  |-> Some(dynamic_attrs)]
                     ELSE session_state
              /\ result' = [op |-> "process", outcome |-> outcome,
                            before |-> session_state]
    /\ UNCHANGED <<logfile, store>>

NextSession ==
    \/ UploadFile
    \/ ProcessLog
    \/ Return

SpecSession == InitSession /\ [][NextSession]_vars

(***************************************************************************)
(* Properties                                                              *)
(***************************************************************************)

\* C1: every Attribute Descriptor returned by build_catalog has a non-empty
\* attributes list that does not contain the descriptor's own time_col.
C1_TimeColNotAnAttribute ==
    result.op = "build_catalog" =>
        \A t \in DOMAIN result.ret :
            /\ Len(result.ret[t].attributes) > 0
            /\ \A i \in 1..Len(result.ret[t].attributes) :
                   result.ret[t].attributes[i] # result.ret[t].time_col

\* a catalog with a descriptor whose time column was itself classified numeric
C1_Witness ==
    /\ result.op = "build_catalog"
    /\ \E t \in DOMAIN result.ret :
          result.ret[t].time_col
              \in Range(detect_numeric_columns(store.db, t, DefaultSampleSize))

\* C2: build_catalog contains a table if and only if the table has rows, the
\* time resolver returns a column for it and the classifier (sample size 100)
\* returns at least one column other than that time column; the result is a
\* mapping over tables of the store, never an error.
C2_CatalogMembership ==
    result.op = "build_catalog" =>
        /\ DOMAIN result.ret \subseteq DOMAIN store.db
        /\ \A t \in DOMAIN store.db :
               t \in DOMAIN result.ret <=>
                   /\ Len(store.db[t].rows) > 0
                   /\ get_time_column(store.db, t) # NoColumn
                   /\ \E c \in Range(detect_numeric_columns(store.db, t, 100)) :
                          c # get_time_column(store.db, t)

\* a catalog that leaves out a table that has rows and a numeric column but no
\* time column
C2_Witness ==
    /\ result.op = "build_catalog"
    /\ \E t \in DOMAIN store.db :
          /\ t \notin DOMAIN result.ret
          /\ Len(store.db[t].rows) > 0
          /\ get_time_column(store.db, t) = NoColumn
          /\ detect_numeric_columns(store.db, t, 100) # <<>>

\* the sampled rows of a table, and for a column the rows holding a value (V)
\* and the rows holding a coercible value (N)
C3_Sample(t) == 1..Min(100, Len(store.db[t].rows))

C3_V(t, j) == {i \in C3_Sample(t) : store.db[t].rows[i][j] # Null}

C3_N(t, j) == {i \in C3_V(t, j) : Coercible(store.db[t].rows[i][j])}

C3_Qualifies(t, j) ==
    /\ Cardinality(C3_V(t, j)) >= 5
    /\ 5 * Cardinality(C3_N(t, j)) >= 4 * Cardinality(C3_V(t, j))
    /\ \E a, b \in C3_N(t, j) :
          Coerce(store.db[t].rows[a][j]) # Coerce(store.db[t].rows[b][j])

\* C3: classify returns a column if and only if, over the sampled rows, it has
\* at least 5 non-null values, at least 80% of them coercible (4 of 5
\* qualifies) and the coerced values are not all the same.
C3_ClassifierRule ==
    result.op = "classify" =>
        IF HasTable(store.db, result.table)
        THEN \A j \in 1..Len(store.db[result.table].columns) :
                 store.db[result.table].columns[j] \in Range(result.ret)
                     <=> C3_Qualifies(result.table, j)
        ELSE result.ret = <<>>

\* a column returned with exactly 4 of its 5 non-null values coercible
C3_Witness ==
    /\ result.op = "classify"
    /\ HasTable(store.db, result.table)
    /\ \E j \in 1..Len(store.db[result.table].columns) :
          /\ store.db[result.table].columns[j] \in Range(result.ret)
          /\ Cardinality(C3_V(result.table, j)) = 5
          /\ Cardinality(C3_N(result.table, j)) = 4

\* the patterns of the claim in priority order, lower-cased
C4_Patterns == << <<"t","i","m","e","u","s">>,
                  <<"t","i","m","e","s","t","a","m","p">>,
                  <<"t","i","m","e","_","b","o","o","t","_","m","s">>,
                  <<"t","i","m","e">> >>

\* the positions of the columns whose name contains pattern p
C4_Matches(columns, p) ==
    {j \in 1..Len(columns) : Contains(C4_Patterns[p], Lower(columns[j]))}

C4_Expected(columns) ==
    LET found == {p \in 1..Len(C4_Patterns) : C4_Matches(columns, p) # {}}
    IN  IF found = {} THEN NoColumn
        ELSE LET best == CHOOSE p \in found : \A q \in found : p <= q
                 at   == CHOOSE j \in C4_Matches(columns, best) :
                             \A k \in C4_Matches(columns, best) : j <= k
             IN  columns[at]

\* C4: resolve_time_column returns the first column, in stored order, that
\* contains the highest-priority pattern contained in any column name, and
\* none exactly when no column name contains a pattern; columns
\* ["foo_time_boot_ms", "TimeUS"] give "TimeUS".
C4_PatternPriority ==
    result.op = "resolve_time" =>
        /\ result.ret = C4_Expected(TableInfo(store.db, result.table))
        /\ (TableInfo(store.db, result.table) = <<FooTimeBootMs, TimeUS>>
               => result.ret = TimeUS)
        /\ (result.ret = NoColumn <=>
               \A j \in 1..Len(TableInfo(store.db, result.table)) :
                   \A p \in 1..Len(C4_Patterns) :
                       ~Contains(C4_Patterns[p], Lower(TableInfo(store.db, result.table)[j])))

\* the resolver called on a table with columns ["foo_time_boot_ms", "TimeUS"]
C4_Witness ==
    /\ result.op = "resolve_time"
    /\ TableInfo(store.db, result.table) = <<FooTimeBootMs, TimeUS>>
    /\ result.ret = TimeUS

\* C5: get_series on a table for which the time resolver returns none fails
\* with "no time column", whatever the attributes and the row limit, before
\* any data is read.
C5_NoTimeColumnFailure ==
    (result.op = "get_series" /\ get_time_column(store.db, result.table) = NoColumn) =>
        /\ IsFailure(result.ret)
        /\ result.ret.reason = "No time column found"

\* get_series on an existing table with rows and no time column, asked for a
\* column the table does not have
C5_Witness ==
    /\ result.op = "get_series"
    /\ HasTable(store.db, result.table)
    /\ Len(store.db[result.table].rows) > 0
    /\ get_time_column(store.db, result.table) = NoColumn
    /\ \E i \in 1..Len(result.attributes) :
          ~HasColumn(store.db, result.table, result.attributes[i])
    /\ result.ret = Failure("No time column found")

\* the rows of the table restricted to the selected columns
C6_Projected(i) ==
    [j \in 1..Len(result.ret.columns) |->
        store.db[result.table].rows[i][ColIndex(store.db, result.table,
                                                result.ret.columns[j])]]

\* C6: for every row_limit >= 0 a returned Chart Result holds exactly the first
\* min(row_limit, row_count) rows of the table, so at most row_limit rows;
\* without a row limit it holds all rows.
C6_RowLimitCaps ==
    (result.op = "get_series" /\ result.ret.tag = "chart") =>
        LET row_count == Len(store.db[result.table].rows)
            expected  == IF result.limit.some THEN Min(result.limit.n, row_count)
                         ELSE row_count
        IN  /\ result.limit.some => Len(result.ret.data) <= result.limit.n
            /\ Len(result.ret.data) = expected
            /\ \A i \in 1..Len(result.ret.data) : result.ret.data[i] = C6_Projected(i)

\* C7: get_statistics asked for attributes of which some are columns of the
\* table and some are not returns a Statistics Result with entries for exactly
\* the attributes that are columns.
C7_AbsentAttributesOmitted ==
    ( /\ result.op = "get_statistics"
      /\ \E i \in 1..Len(result.attributes) :
            HasColumn(store.db, result.table, result.attributes[i])
      /\ \E i \in 1..Len(result.attributes) :
            ~HasColumn(store.db, result.table, result.attributes[i]) )
    => /\ result.ret.tag = "stats"
       /\ {result.ret.stats[j][1] : j \in 1..Len(result.ret.stats)}
             = {a \in Range(result.attributes) : HasColumn(store.db, result.table, a)}

C8_ColonAt(f) == CHOOSE i \in 1..Len(f) : f[i] = ":"

C8_Minutes(f) == SubSeq(f, 1, C8_ColonAt(f) - 1)

C8_Seconds(f) == SubSeq(f, C8_ColonAt(f) + 1, Len(f))

\* C8: for a microsecond count u >= 0 (raw.hi is floor(u / 1_000_000)) the
\* formatted string is "M:SS": SS two digits in 00..59, M written without
\* padding, and M * 60 + SS = floor(u / 1_000_000), so M = floor(u / 60_000_000)
\* without hour rollover; 125_000_000 gives "2:05", 59_000_000 "0:59" and
\* 3_600_000_000 "60:00".
C8_FormattedTime ==
    result.op = "normalize" =>
        LET f == result.ret.formatted
        IN  /\ \E i \in 1..Len(f) : f[i] = ":"
            /\ Len(C8_Minutes(f)) >= 1
            /\ \A i \in 1..Len(C8_Minutes(f)) : IsDigit(C8_Minutes(f)[i])
            /\ (Len(C8_Minutes(f)) > 1 => C8_Minutes(f)[1] # "0")
            /\ Len(C8_Seconds(f)) = 2
            /\ \A i \in 1..2 : IsDigit(C8_Seconds(f)[i])
            /\ DigitsVal(C8_Seconds(f)) <= 59
            /\ DigitsVal(C8_Minutes(f)) * 60 + DigitsVal(C8_Seconds(f)) = result.raw.hi
            /\ (result.raw = [hi |-> 125, lo |-> 0] => f = <<"2", ":", "0", "5">>)
            /\ (result.raw = [hi |-> 59, lo |-> 0] => f = <<"0", ":", "5", "9">>)
            /\ (result.raw = [hi |-> 3600, lo |-> 0] => f = <<"6", "0", ":", "0", "0">>)

\* the normalizer applied to 3_600_999_999 microseconds
C8_Witness ==
    /\ result.op = "normalize"
    /\ result.raw = [hi |-> 3600, lo |-> 999999]
    /\ result.ret.formatted = <<"6", "0", ":", "0", "0">>

\* a Chart Result whose time column is no microsecond counter
C9_Case ==
    /\ result.op = "get_series"
    /\ result.ret.tag = "chart"
    /\ ~Contains(<<"t","i","m","e","u","s">>, Lower(get_time_column(store.db, result.table)))

\* the raw time value of row i as the store holds it
C9_Raw(i) ==
    store.db[result.table].rows[i][ColIndex(store.db, result.table,
                                            get_time_column(store.db, result.table))]

\* the text is the string form of the raw value
C9_IsStringOf(text, raw) ==
    CASE raw.k = "null" -> text \in { <<"n","a","n">>, <<"N","o","n","e">> }
      [] raw.k = "int"  -> IsIntText(text) /\ IntTextVal(text) = raw.n
      [] raw.k = "real" -> ~IsIntText(text) /\ IsNumText(text) /\ NumTextVal(text) = raw.n
      [] raw.k = "str"  -> text = raw.s

\* C9 as claimed: when the time column is no microsecond counter, the elapsed
\* value of every row is the raw time value itself and the formatted value is
\* its string form.
C9_RawPassThrough ==
    C9_Case =>
        \A i \in 1..Len(result.ret.data) :
            /\ result.ret.datetime[i] = C9_Raw(i)
            /\ C9_IsStringOf(result.ret.time_formatted[i], C9_Raw(i))

\* C9 amended: the raw time value stays in the row and its string form is the
\* formatted value, but the elapsed value is the raw number read as a count of
\* nanoseconds since the epoch (NaT for a missing value).
C9_NanosecondsSinceEpoch ==
    C9_Case =>
        \A i \in 1..Len(result.ret.data) :
            /\ result.ret.data[i][1] = C9_Raw(i)
            /\ C9_IsStringOf(result.ret.time_formatted[i], C9_Raw(i))
            /\ IF C9_Raw(i).k \in {"int", "real"}
               THEN /\ ~result.ret.datetime[i].nat
                    /\ result.ret.datetime[i].nsec \in 0..(NanosPerSecond - 1)
                    /\ result.ret.datetime[i].sec * NanosPerSecond
                           + result.ret.datetime[i].nsec = C9_Raw(i).n
               ELSE result.ret.datetime[i].nat

\* a chart over a boot-millisecond time column with a raw value of 1_500_000_00x,
\* read as 1.5 seconds after the epoch, and a missing time value in a later row
C9_Witness ==
    /\ C9_Case
    /\ \E i \in 1..Len(result.ret.data) :
          C9_Raw(i).k = "int" /\ C9_Raw(i).n >= NanosPerSecond
              /\ result.ret.datetime[i].sec = 1

\* the messages of a type that converted, by position in the log
C10_Converted(type) ==
    {i \in 1..Len(logfile) : logfile[i].type = type /\ logfile[i].ok}

\* where a field name is first seen among them: <<message, position in it>>
C10_FirstSeen(type, name) ==
    LET i == CHOOSE i \in C10_Converted(type) :
                 /\ HasKey(logfile[i].fields, name)
                 /\ \A k \in C10_Converted(type) :
                        HasKey(logfile[k].fields, name) => i <= k
    IN  <<i, CHOOSE j \in 1..Len(logfile[i].fields) : logfile[i].fields[j][1] = name>>

C10_Earlier(p, q) == p[1] < q[1] \/ (p[1] = q[1] /\ p[2] < q[2])

\* C10 as claimed: the columns of a type's table are the field names of the
\* first record of the type, in that record's key order.
C10_FirstRecordFixesColumns ==
    result.op = "materialize" =>
        \A type \in Range(SeenTypes(logfile)) :
            HasTable(store.db, CleanTableName(type)) =>
                store.db[CleanTableName(type)].columns
                    = Keys(FirstOfType(logfile, type).fields)

\* C10 amended: the columns of a type's table are the field names of all its
\* converted records, each once, in first-seen order; a field that first
\* appears in a later record becomes a column.
C10_ColumnsAreUnion ==
    result.op = "materialize" =>
        \A type \in Range(SeenTypes(logfile)) :
            HasTable(store.db, CleanTableName(type)) =>
                LET columns == store.db[CleanTableName(type)].columns
                IN  /\ Range(columns)
                          = UNION {Range(Keys(logfile[i].fields)) : i \in C10_Converted(type)}
                    /\ \A a, b \in 1..Len(columns) :
                           a < b => C10_Earlier(C10_FirstSeen(type, columns[a]),
                                                C10_FirstSeen(type, columns[b]))

\* a table with a column that the first record of its type does not have
C10_Witness ==
    /\ result.op = "materialize"
    /\ \E type \in Range(SeenTypes(logfile)) :
          /\ HasTable(store.db, CleanTableName(type))
          /\ \E c \in Range(store.db[CleanTableName(type)].columns) :
                ~HasKey(FirstOfType(logfile, type).fields, c)

\* the positions in the log, in arrival order, of the messages of a type whose
\* conversion succeeded
C11_Arrived(type) ==
    LET at == {i \in 1..Len(logfile) : logfile[i].type = type /\ logfile[i].ok}
    IN  SelectSeq2([i \in 1..Len(logfile) |-> i], at)

\* the cell holds the value: a number as a number, text as the same text
C11_Holds(cell, value) ==
    IF value.k = "str" THEN cell = value
    ELSE cell.k \in {"int", "real"} /\ cell.n = value.n

C12_Types ==
    {logfile[i].type : i \in {k \in 1..Len(logfile) : logfile[k].ok}} \ {BAD_DATA, UNKNOWN}

\* the time stamps of the records of a type (every record of these logs has a
\* TimeUS field that holds its position in the log)
C12_Stamps(type) ==
    {ValueOf(logfile[i].fields, TimeUS) .n :
        i \in {k \in 1..Len(logfile) : logfile[k].type = type /\ logfile[k].ok}}

\* C12: materialization builds one table per message type: the store has as
\* many tables as the log has types with a record, and the table of each type
\* holds the rows of that type and of no other, also for types whose names
\* differ only in '-' or ' ' versus '_'.
C12_OneTablePerType ==
    result.op = "materialize" =>
        /\ Cardinality(DOMAIN store.db) = Cardinality(C12_Types)
        /\ \A type \in C12_Types :
               /\ HasTable(store.db, CleanTableName(type))
               /\ HasColumn(store.db, CleanTableName(type), TimeUS)
               /\ {store.db[CleanTableName(type)].rows[k]
                       [ColIndex(store.db, CleanTableName(type), TimeUS)].n :
                       k \in 1..Len(store.db[CleanTableName(type)].rows)}
                     = C12_Stamps(type)

\* pattern i of the table is a substring of the lower-cased name
C13_Matches(i, name) == Contains(patterns[i].pattern, Lower(name))

\* text is source title-cased: a letter at the start or after a non-letter is
\* upper case, a letter after a letter lower case, anything else unchanged
C13_TitleCased(text, source) ==
    /\ Len(text) = Len(source)
    /\ \A i \in 1..Len(source) :
           IF ~IsLetter(source[i]) THEN text[i] = source[i]
           ELSE IF i = 1 \/ ~IsLetter(source[i - 1])
           THEN text[i] \in Range(UpperChars) /\ LowerChar(text[i]) = LowerChar(source[i])
           ELSE text[i] \in Range(LowerChars) /\ text[i] = LowerChar(source[i])

\* C13: annotate returns the (unit, description) of the first pattern, in
\* declaration order, that is a substring of the lower-cased column name; if
\* and only if no pattern is a substring it returns ("", the name with '_'
\* replaced by spaces, title-cased).
C13_FirstPatternWins ==
    result.op = "annotate" =>
        LET name == result.name
            none == \A i \in 1..Len(patterns) : ~C13_Matches(i, name)
        IN  /\ ~none =>
                   \E i \in 1..Len(patterns) :
                       /\ C13_Matches(i, name)
                       /\ \A j \in 1..(i - 1) : ~C13_Matches(j, name)
                       /\ result.ret.unit = patterns[i].unit
                       /\ result.ret.desc = patterns[i].desc
            /\ none =>
                   /\ result.ret.unit = <<>>
                   /\ C13_TitleCased(result.ret.desc, ReplaceChar(name, "_", " "))
                   /\ \A i \in 1..Len(name) : result.ret.desc[i] # "_"
            /\ (result.ret.unit = <<>>) <=> none
            /\ (name = <<"Z","_","g","1">> => result.ret.desc = <<"Z"," ","G","1">>)

\* "Rollspeed" annotated as ("degrees", "Roll angle"): "roll" is declared before
\* "rollspeed" and "speed", which the name contains as well
C13_Witness ==
    /\ result.op = "annotate"
    /\ result.name = <<"R","o","l","l","s","p","e","e","d">>
    /\ result.ret.unit = <<"d","e","g","r","e","e","s">>
    /\ result.ret.desc = <<"R","o","l","l"," ","a","n","g","l","e">>

\* C14: describe, build_catalog, get_series and get_statistics never mutate the
\* store: whatever their arguments and whether they succeed or fail, every
\* such call leaves the set of tables, their columns and their rows as they
\* were, so after any sequence of them the store is what it was before.
C14_ReadsLeaveStore ==
    [][result'.op \in {"describe", "build_catalog", "get_series", "get_statistics"}
          => store' = store]_vars

\* a chart of fewer rows than the table has has been returned, and the store
\* still holds exactly what materialization built
C14_Witness ==
    /\ result.op = "get_series"
    /\ result.ret.tag = "chart"
    /\ Len(result.ret.data) < Len(store.db[result.table].rows)
    /\ store.db = load_csvs_to_temp_db(parse_all_mavlink_messages_to_csv(logfile))

\* the rows of the queried table that the call selects
C15_Selected ==
    IF ~HasTable(store.db, result.table) THEN <<>>
    ELSE LET rows == store.db[result.table].rows
         IN  IF result.op = "get_series" /\ result.limit.some /\ result.limit.n > 0
             THEN SubSeq(rows, 1, Min(result.limit.n, Len(rows)))
             ELSE rows

C15_UnknownAttribute ==
    \E i \in 1..Len(result.attributes) :
        ~HasColumn(store.db, result.table, result.attributes[i])

\* a microsecond time column with a selected value that is missing or text
C15_TimeNotNormalizable ==
    LET time_col == get_time_column(store.db, result.table)
    IN  /\ time_col # NoColumn
        /\ Contains(<<"t","i","m","e","u","s">>, Lower(time_col))
        /\ \E i \in 1..Len(C15_Selected) :
               C15_Selected[i][ColIndex(store.db, result.table, time_col)].k
                   \in {"null", "str"}

C16_QueryRuns ==
    /\ HasTable(store.db, result.table)
    /\ \A i \in 1..Len(result.attributes) :
           HasColumn(store.db, result.table, result.attributes[i])
    /\ IF result.op = "get_series"
       THEN get_time_column(store.db, result.table) # NoColumn
       ELSE result.attributes # <<>>

\* C16: get_series on a table that has a time column, and get_statistics on
\* any table, return the "No data found" failure when the result set they
\* select has zero rows, and never return a Chart Result or a Statistics
\* Result built from zero rows.
C16_NoDataFailure ==
    result.op \in {"get_series", "get_statistics"} =>
        /\ (C16_QueryRuns /\ Len(store.db[result.table].rows) = 0)
               => result.ret = Failure("No data found")
        /\ result.ret.tag = "chart" => Len(result.ret.data) > 0
        /\ result.ret.tag = "stats" => Len(store.db[result.table].rows) > 0

\* get_statistics on a table of zero rows, asked for a column of the table,
\* has returned the "No data found" failure
C16_Witness ==
    /\ result.op = "get_statistics"
    /\ C16_QueryRuns
    /\ Len(store.db[result.table].rows) = 0
    /\ result.ret = Failure("No data found")

\* the values of a column of the queried table over all its rows, missing
\* values left out
C17_Values(attribute) ==
    LET j     == ColIndex(store.db, result.table, attribute)
        cells == [i \in 1..Len(store.db[result.table].rows) |->
                     store.db[result.table].rows[i][j]]
        some  == SelectSeq(cells, LAMBDA v : v # Null)
    IN  [i \in 1..Len(some) |-> some[i].n]

\* the call asks for columns of the table that hold no text, and the table
\* has rows
C17_Case ==
    /\ result.op = "get_statistics"
    /\ HasTable(store.db, result.table)
    /\ Len(store.db[result.table].rows) > 0
    /\ result.attributes # <<>>
    /\ \A i \in 1..Len(result.attributes) :
           /\ HasColumn(store.db, result.table, result.attributes[i])
           /\ \A r \in 1..Len(store.db[result.table].rows) :
                  store.db[result.table].rows[r]
                      [ColIndex(store.db, result.table, result.attributes[i])].k # "str"

C18_Case ==
    /\ store.open
    /\ Cardinality({i \in 1..Len(logfile) : logfile[i].type = ATT}) >= 5
    /\ \E i \in 1..Len(logfile) : logfile[i].type = STR
    /\ \A i \in 1..Len(logfile) :
           logfile[i].type = STR =>
               \A j \in 1..Len(logfile[i].fields) : logfile[i].fields[j][2].k = "str"

\* no field name of the type STR contains a time pattern
C18_NoTimeName ==
    \A i \in 1..Len(logfile) :
        logfile[i].type = STR =>
            \A j \in 1..Len(logfile[i].fields) :
                \A p \in 1..Len(time_patterns) :
                    ~Contains(Lower(time_patterns[p]), Lower(logfile[i].fields[j][1]))

\* C18 as claimed: after ingesting a type with a usable time column and a
\* qualifying numeric column and a type with only string fields, the catalog
\* contains exactly the first type and get_series on the second type fails
\* with "no time column".
C18_StringTypeHasNoTimeColumn ==
    C18_Case =>
        /\ result.op = "build_catalog" => DOMAIN result.ret = {ATT}
        /\ (result.op = "get_series" /\ result.table = STR)
               => result.ret = Failure("No time column found")

\* C18 amended: the same holds when no field name of the string-only type
\* contains a time pattern; when one does, the time resolver returns that
\* column and get_series on the type does not fail with "no time column".
C18_StringTypeWithoutTimeName ==
    C18_Case =>
        /\ (result.op = "build_catalog" /\ C18_NoTimeName)
               => DOMAIN result.ret = {ATT}
        /\ (result.op = "get_series" /\ result.table = STR)
               => (result.ret = Failure("No time column found") <=> C18_NoTimeName)

\* the catalog built from five ATT records and five records of a string-only
\* type whose Code column reads as numbers but which has no time column
C18_Witness ==
    /\ C18_Case
    /\ C18_NoTimeName
    /\ result.op = "build_catalog"
    /\ DOMAIN result.ret = {ATT}
    /\ HasTable(store.db, STR)
    /\ detect_numeric_columns(store.db, STR, DefaultSampleSize) # <<>>

C20_Records(table) ==
    {i \in 1..Len(logfile) :
        /\ logfile[i].ok
        /\ logfile[i].type \notin {BAD_DATA, UNKNOWN}
        /\ CleanTableName(logfile[i].type) = table}

\* C20: each ingestion produces a fresh store: whatever store was held before,
\* the store returned for the log just ingested has tables only for message
\* types of that log, each with one row per record of that log and with
\* columns that are field names of those records.
C20_FreshStore ==
    result.op = "materialize" =>
        \A table \in DOMAIN store.db :
            /\ C20_Records(table) # {}
            /\ Len(store.db[table].rows) = Cardinality(C20_Records(table))
            /\ \A j \in 1..Len(store.db[table].columns) :
                   \E i \in C20_Records(table) :
                       HasKey(logfile[i].fields, store.db[table].columns[j])

\* a second log has been ingested: the store held before had a table, with
\* rows, for a message type that the new log does not have
C20_Witness ==
    /\ result.op = "materialize"
    /\ DOMAIN store.db # {}
    /\ \E table \in DOMAIN result.replaced :
          /\ Len(result.replaced[table].rows) > 0
          /\ table \notin DOMAIN store.db
          /\ C20_Records(table) = {}

\* the table of the call cut down to the first n of its rows
C21_FirstRows(n) ==
    [t \in DOMAIN store.db |->
        IF t = result.table
        THEN [store.db[t] EXCEPT !.rows = SubSeq(@, 1, Min(n, Len(@)))]
        ELSE store.db[t]]

\* the non-null values of column j in the first n rows of the table of the call
C21_SampleValues(j, n) ==
    SelectSeq(Column(C21_FirstRows(n)[result.table].rows, j), LAMBDA v : v.k # "null")

\* C21: the classifier's result for a table depends only on the table's
\* columns and its first sample_size rows: it is the result for the table
\* that has those rows and nothing after them, whatever rows follow; a
\* column with fewer than 5 non-null values in the first sample_size rows
\* does not qualify, however many varying numbers the later rows hold.
C21_SampleDecides ==
    result.op = "classify_sample" =>
        /\ result.ret = detect_numeric_columns(C21_FirstRows(result.sample_size),
                                               result.table, DefaultSampleSize)
        /\ HasTable(store.db, result.table) =>
               \A j \in 1..Len(store.db[result.table].columns) :
                   Len(C21_SampleValues(j, result.sample_size)) < MinValues
                       => ~Contains(<<store.db[result.table].columns[j]>>, result.ret)

\* a table longer than the sample, whose Roll column has fewer than 5
\* non-null values in the sample and at least 5 varying numbers overall, so
\* that reading every row would have classified Roll as numeric
C21_Witness ==
    /\ result.op = "classify_sample"
    /\ HasTable(store.db, result.table)
    /\ result.sample_size >= MinValues
    /\ Len(store.db[result.table].rows) > result.sample_size
    /\ \E j \in 1..Len(store.db[result.table].columns) :
          /\ store.db[result.table].columns[j] = Roll
          /\ Len(C21_SampleValues(j, result.sample_size)) < MinValues
          /\ IsNumericColumn(Column(store.db[result.table].rows, j))
    /\ ~Contains(<<Roll>>, result.ret)
    /\ result.ret # <<>>

\* C22: for every table of the Attribute Catalog and every non-empty
\* selection of its catalog attributes, get_series on the unchanged store
\* returns a Chart Result, not a tagged failure, also when rows of the table
\* hold null in the time column or in an attribute.
C22_CatalogSelectionsChart ==
    result.op = "plot" => ~IsFailure(result.ret)

\* the patterns declared before pattern k that are substrings of key k
C23_Earlier(k) ==
    {j \in 1..(k - 1) : Contains(patterns[j].pattern, patterns[k].pattern)}

\* the annotator has returned the pair registered for pattern j
C23_ReturnsPairOf(j) ==
    /\ result.ret.unit = patterns[j].unit
    /\ result.ret.desc = patterns[j].desc

\* the keys that contain a pattern declared before them
C23_ShadowedKeys ==
    { <<"r","o","l","l","s","p","e","e","d">>, <<"p","i","t","c","h","s","p","e","e","d">>, <<"y","a","w","s","p","e","e","d">>,
      <<"r","e","l","a","l","t">>, <<"g","r","o","u","n","d","s","p","e","e","d">>, <<"a","i","r","s","p","e","e","d">>,
      <<"c","u","r","r">>, <<"p","o","w","e","r">>, <<"p","r","e","s","s">>,
      <<"b","a","r","o">>, <<"t","e","m","p">>, <<"t","h","r">>,
      <<"t","h","r","o","t","t","l","e">>, <<"r","u","d">>, <<"t","i","m","e","s","t","a","m","p">> }

\* C23 as stated: no pattern of the annotator's table is shadowed: for every
\* pattern key k, annotate(k) returns the (unit, description) registered
\* for k itself.
C23_NoPatternShadowed ==
    result.op = "annotate_key" => C23_ReturnsPairOf(result.key)

\* C23, amended: annotate(k) of a pattern key k returns the pair of the
\* first pattern, in declaration order, that is a substring of k; that is
\* k's own pair exactly when no earlier pattern is a substring of k.  Fifteen
\* keys are shadowed that way and never get their own pair: "rollspeed"
\* gives ("degrees", "Roll angle") and "timestamp" gives ("deg/s", "Roll rate").
C23_EarlierPatternShadows ==
    result.op = "annotate_key" =>
        LET k == result.key
        IN  /\ C23_Earlier(k) = {} => C23_ReturnsPairOf(k)
            /\ C23_Earlier(k) # {} =>
                   /\ C23_ReturnsPairOf(CHOOSE j \in C23_Earlier(k) :
                                            \A i \in C23_Earlier(k) : j <= i)
                   /\ ~C23_ReturnsPairOf(k)
            /\ (C23_Earlier(k) # {}) <=> (result.name \in C23_ShadowedKeys)
            /\ result.name = <<"r","o","l","l","s","p","e","e","d">> =>
                   /\ result.ret.unit = <<"d","e","g","r","e","e","s">>
                   /\ result.ret.desc = <<"R","o","l","l"," ","a","n","g","l","e">>
            /\ result.name = <<"t","i","m","e","s","t","a","m","p">> =>
                   /\ result.ret.unit = <<"d","e","g","/","s">>
                   /\ result.ret.desc = <<"R","o","l","l"," ","r","a","t","e">>

\* the key "timestamp" annotated with the pair of the one-letter pattern "p"
C23_Witness ==
    /\ result.op = "annotate_key"
    /\ result.name = <<"t","i","m","e","s","t","a","m","p">>
    /\ C23_Earlier(result.key) # {}
    /\ result.ret.desc = <<"R","o","l","l"," ","r","a","t","e">>

\* the records of a message type that converted successfully
C24_Converted(type) ==
    {i \in 1..Len(logfile) : logfile[i].type = type /\ logfile[i].ok}

\* the message types of the log that are not a sentinel type
C24_Types ==
    {logfile[i].type : i \in 1..Len(logfile)} \ {BAD_DATA, UNKNOWN}

\* C24: after materialization every table of the store has at least one row;
\* a message type none of whose records converted gets no table at all; so
\* describe never reports row_count = 0 and the row_count gate of
\* build_catalog never excludes a table of a materialized store.
C24_NoEmptyTable ==
    store.open =>
        /\ \A t \in DOMAIN store.db : Len(store.db[t].rows) >= 1
        /\ \A type \in C24_Types :
               C24_Converted(type) = {} => ~HasTable(store.db, CleanTableName(type))
        /\ result.op = "describe" =>
               \A t \in DOMAIN result.ret : result.ret[t].row_count > 0
        /\ result.op = "build_catalog" =>
               \A t \in DOMAIN store.db : get_database_schema(store.db)[t].row_count # 0

\* describe of a store materialized from a log in which every ATT record
\* failed to convert and a MSG record converted: MSG is reported, ATT is not
C24_Witness ==
    /\ store.open
    /\ result.op = "describe"
    /\ ATT \in C24_Types
    /\ C24_Converted(ATT) = {}
    /\ ATT \notin DOMAIN result.ret
    /\ MSG \in DOMAIN result.ret

====
